---- MODULE Spec2Model ----
(***************************************************************************)
(* levenlabs/lrpc: the Call/Handler abstraction (package lrpc), the HTTP   *)
(* bridge (package lrpchttp) and the JSON RPC2 codec (package json2).      *)
(*                                                                         *)
(* Go strings that travel through JSON are sequences of characters; JSON   *)
(* texts (json.RawMessage) are sequences of characters too, produced by    *)
(* Marshal and read back by ParseValue.  Error texts that are only ever    *)
(* copied are TLA+ strings.                                                *)
(***************************************************************************)
EXTENDS Integers, Sequences, FiniteSets, TLC

(***************************************************************************)
(* Bounds of the model.                                                    *)
(***************************************************************************)
\* Number of Handle / HandleFunc calls made while the registry is set up.
MaxHandle == 2
\* Number of HTTP requests in flight at once.
MaxConc == 2

(***************************************************************************)
(* Characters.  A character is a string: a printable ASCII character, tab,  *)
(* line feed, form feed and carriage return stand for themselves; every    *)
(* other code point is written "U+" and its number in upper-case hex       *)
(* digits, four at least ("U+0008", "U+2028", "U+1F600").                  *)
(***************************************************************************)
Quote == "\""
Backslash == "\\"
DigitChars == <<"0", "1", "2", "3", "4", "5", "6", "7", "8", "9">>
IsDigit(c) == \E i \in 1..Len(DigitChars) : DigitChars[i] = c
DigitVal(c) == (CHOOSE i \in 1..Len(DigitChars) : DigitChars[i] = c) - 1
LowerHex == DigitChars \o <<"a", "b", "c", "d", "e", "f">>
UpperHex == DigitChars \o <<"A", "B", "C", "D", "E", "F">>
IsHex(c) == \E i \in 1..Len(LowerHex) : LowerHex[i] = c \/ UpperHex[i] = c
HexVal(c) == (CHOOSE i \in 1..Len(LowerHex) : LowerHex[i] = c \/ UpperHex[i] = c) - 1
\* U+0020 .. U+007E in order (the grave accent, which no TLA+ string holds,
\* by its name).
Printable ==
    <<" ", "!", Quote, "#", "$", "%", "&", "'", "(", ")", "*", "+", ",", "-", ".", "/",
      "0", "1", "2", "3", "4", "5", "6", "7", "8", "9", ":", ";", "<", "=", ">", "?",
      "@", "A", "B", "C", "D", "E", "F", "G", "H", "I", "J", "K", "L", "M", "N", "O",
      "P", "Q", "R", "S", "T", "U", "V", "W", "X", "Y", "Z", "[", Backslash, "]", "^", "_",
      "U+0060", "a", "b", "c", "d", "e", "f", "g", "h", "i", "j", "k", "l", "m", "n", "o",
      "p", "q", "r", "s", "t", "u", "v", "w", "x", "y", "z", "{", "|", "}", "~">>
Tab == "\t"
LF == "\n"
FF == "\f"
CR == "\r"

\* Hex digits of n, at least w of them.
RECURSIVE HexDigits(_, _, _)
HexDigits(n, w, digits) ==
    IF n < Len(digits) /\ w <= 1 THEN <<digits[n + 1]>>
    ELSE HexDigits(n \div Len(digits), w - 1, digits) \o <<digits[(n % Len(digits)) + 1]>>
RECURSIVE Glue(_)
Glue(cs) == IF cs = <<>> THEN "" ELSE Head(cs) \o Glue(Tail(cs))
RuneName(n) == "U+" \o Glue(HexDigits(n, 4, UpperHex))
\* The character with code point n.
ToChar(n) ==
    IF n = 9 THEN Tab ELSE IF n = 10 THEN LF ELSE IF n = 12 THEN FF ELSE IF n = 13 THEN CR
    ELSE IF n >= 32 /\ n < 32 + Len(Printable)
    THEN Printable[n - 31]
    ELSE RuneName(n)
RECURSIVE HexNumber(_, _, _)
HexNumber(str, i, acc) ==
    IF i > Len(str) THEN acc
    ELSE HexNumber(str, i + 1, acc * Len(LowerHex) + HexVal(SubSeq(str, i, i)))
\* The code point of character c.
Code(c) ==
    IF Len(c) > 1 THEN HexNumber(c, 3, 0)
    ELSE IF c = Tab THEN 9 ELSE IF c = LF THEN 10 ELSE IF c = FF THEN 12 ELSE IF c = CR THEN 13
    ELSE (CHOOSE i \in 1..Len(Printable) : Printable[i] = c) + 31
Backspace == ToChar(8)
LineSep == ToChar(8232)
ParaSep == ToChar(8233)
Replacement == ToChar(65533)
ControlChars == {ToChar(n) : n \in 0..31}
IsControl(c) == c \in ControlChars
IsSpace(c) == c \in {" ", Tab, LF, CR}
IsPrefix(p, s) == Len(p) <= Len(s) /\ SubSeq(s, 1, Len(p)) = p
Drop(s, n) == SubSeq(s, n + 1, Len(s))
\* The pieces ps[lo], ..., ps[hi] written one after another.
RECURSIVE Join(_, _, _)
Join(ps, lo, hi) ==
    IF lo > hi THEN <<>>
    ELSE IF lo = hi THEN ps[lo]
    ELSE Join(ps, lo, (lo + hi) \div 2) \o Join(ps, (lo + hi) \div 2 + 1, hi)
RECURSIVE SkipSpace(_)
SkipSpace(s) == IF s # <<>> /\ IsSpace(Head(s)) THEN SkipSpace(Tail(s)) ELSE s

\* Strings compare as Go compares them: by code points, a prefix first.
RECURSIVE StrLess(_, _)
StrLess(a, b) ==
    IF b = <<>> THEN FALSE
    ELSE IF a = <<>> THEN TRUE
    ELSE IF Head(a) = Head(b) THEN StrLess(Tail(a), Tail(b))
    ELSE Code(Head(a)) < Code(Head(b))

(***************************************************************************)
(* encoding/json: values.  What json.Unmarshal stores into an interface{}  *)
(* is null (the nil interface), a bool, a number (float64), a string, an   *)
(* array or a map; a Go struct is an object whose members keep the order   *)
(* of its fields; a *json.RawMessage field holds a text or nothing.        *)
(***************************************************************************)
JNull == [t |-> "null"]
JBool(b) == [t |-> "bool", b |-> b]
JStr(s) == [t |-> "str", s |-> s]
JArr(items) == [t |-> "arr", a |-> items]
JRaw(p) == [t |-> "raw", p |-> p]
Member(k, v) == [k |-> k, v |-> v]

RECURSIVE NatToChars(_)
NatToChars(n) ==
    IF n < Len(DigitChars) THEN <<DigitChars[n + 1]>>
    ELSE NatToChars(n \div Len(DigitChars)) \o <<DigitChars[(n % Len(DigitChars)) + 1]>>

\* A number is its sign, its significant decimal digits d (no zero at
\* either end) and the place pt of the decimal point: 0.d * 10^pt.  Zero
\* has no digits; the float64 a text like -0 decodes to keeps its sign.
Decimal(neg, digits, point) ==
    LET n == Len(digits)
        Zero(i) == digits[i] = "0"
        Made(lead, trail) ==
            IF lead = n THEN [t |-> "num", neg |-> neg, d |-> <<>>, pt |-> 0]
            ELSE [t |-> "num", neg |-> neg, d |-> SubSeq(digits, lead + 1, n - trail),
                  pt |-> point - lead]
    IN  Made(CHOOSE k \in 0..n : (\A i \in 1..k : Zero(i)) /\ (k = n \/ ~Zero(k + 1)),
             CHOOSE k \in 0..n : (\A i \in (n - k + 1)..n : Zero(i)) /\ (k = n \/ ~Zero(n - k)))
\* A Go integer.
JNum(n) == IF n < 0 THEN Decimal(TRUE, NatToChars(-n), Len(NatToChars(-n)))
           ELSE Decimal(FALSE, NatToChars(n), Len(NatToChars(n)))
\* strconv.ParseFloat(text, 64) for the number v, as json.Unmarshal calls it
\* to store a number into an interface{}: [err, f].  The float64 nearest to
\* the decimal is m * 2^e with m below 2^53 and e at least -1074, a tie
\* going to the even m; err tells that it lies beyond the largest float64.
\* f names the float64 by the digits strconv.FormatFloat(f, 'g', -1, 64)
\* writes for it: the fewest that no other float64 is nearest to, and of
\* those the ones nearest to it.  A decimal of at most 15 digits, the
\* smallest and largest magnitudes apart, is such a name already: float64
\* lie closer together than the decimals of 15 digits.
ParseFloat(v) ==
    LET Two52 == <<4, 5, 0, 3, 5, 9, 9, 6, 2, 7, 3, 7, 0, 4, 9, 6>>
        Two53 == <<9, 0, 0, 7, 1, 9, 9, 2, 5, 4, 7, 4, 0, 9, 9, 2>>
        Float(x) ==
            [t |-> "num", neg |-> v.neg,
             d |-> <<>> \o [i \in 1..Len(x.d) |-> DigitChars[x.d[i] + 1]], pt |-> x.dp]
        \* The exact decimal 0.d * 10^dp, d without a zero at either end.
        Num(d, dp) ==
            LET n == Len(d)
                Cut(lead, trail) ==
                    IF lead = n THEN [d |-> <<>>, dp |-> 0]
                    ELSE [d |-> SubSeq(d, lead + 1, n - trail), dp |-> dp - lead]
            IN  Cut(CHOOSE k \in 0..n : (\A i \in 1..k : d[i] = 0) /\ (k = n \/ d[k + 1] # 0),
                    CHOOSE k \in 0..n :
                        (\A i \in (n - k + 1)..n : d[i] = 0) /\ (k = n \/ d[n - k] # 0))
        Digit(d, i) == IF i >= 1 /\ i <= Len(d) THEN d[i] ELSE 0
        \* Twice and half a digit string: one digit more, in front or behind.
        Twice(d) ==
            <<>> \o [i \in 1..(Len(d) + 1) |->
                        (2 * Digit(d, i - 1) + (IF Digit(d, i) >= 5 THEN 1 ELSE 0)) % 10]
        Half(d) ==
            <<>> \o [i \in 1..(Len(d) + 1) |-> (Digit(d, i) + 10 * (Digit(d, i - 1) % 2)) \div 2]
        \* x * 2^k
        RECURSIVE Scale(_, _)
        Scale(x, k) ==
            IF x.d = <<>> \/ k = 0 THEN x
            ELSE IF k \in {1, -1}
            THEN Num(IF k = 1 THEN Twice(x.d) ELSE Half(x.d), IF k = 1 THEN x.dp + 1 ELSE x.dp)
            ELSE Scale(Scale(x, k \div 2), k - k \div 2)
        Less(x, y) ==
            IF x.d = <<>> \/ y.d = <<>> THEN y.d # <<>>
            ELSE IF x.dp # y.dp THEN x.dp < y.dp
            ELSE \E i \in 1..Len(y.d) :
                     /\ Digit(x.d, i) < y.d[i]
                     /\ \A j \in 1..(i - 1) : Digit(x.d, j) = y.d[j]
        \* The integer after and before the one with the digits d; the
        \* former with one digit more in front.
        Inc(d) ==
            LET n == Len(d)
                Up(k) == IF k = n THEN <<1>> \o [i \in 1..n |-> 0]
                         ELSE <<0>> \o SubSeq(d, 1, n - k - 1) \o <<d[n - k] + 1>>
                              \o [i \in 1..k |-> 0]
            IN  Up(CHOOSE k \in 0..n :
                       (\A i \in (n - k + 1)..n : d[i] = 9) /\ (k = n \/ d[n - k] # 9))
        Dec(d) ==
            LET n == Len(d)
                Down(k) == SubSeq(d, 1, n - k - 1) \o <<d[n - k] - 1>> \o [i \in 1..k |-> 9]
            IN  Down(CHOOSE k \in 0..(n - 1) : (\A i \in (n - k + 1)..n : d[i] = 0) /\ d[n - k] # 0)
        \* w is the decimal over 2^e0, between 2^52 and 2^58: halved j times it
        \* is below 2^53, and e is never below -1074.
        Halvings(w, e0) ==
            LET Exponent(j) ==
                    IF e0 + j < -1074 THEN <<e0 + 1074, -1074>> ELSE <<-j, e0 + j>>
                Halved(by) == [w |-> Scale(w, by[1]), e |-> by[2]]
                Fewest(below) ==
                    CHOOSE j \in 0..6 : below[j + 1] /\ (j = 0 \/ ~below[j])
            IN  Halved(Exponent(Fewest(<<>> \o [i \in 1..7 |->
                                                  Less(Scale(w, 1 - i), Num(Two53, 16))])))
        \* h.w is the decimal over 2^e: m is the integer nearest to it, a tie
        \* going to the even one.
        Nearest(h) ==
            LET first == Digit(h.w.d, h.w.dp + 1)
                above == first > 5 \/ (first = 5 /\ Len(h.w.d) > h.w.dp + 1)
                tie == first = 5 /\ Len(h.w.d) = h.w.dp + 1
                Carried(inc) == IF Head(inc) = 0 THEN Tail(inc) ELSE inc
                Whole(int) ==
                    IF above \/ (tie /\ Digit(h.w.d, h.w.dp) % 2 = 1) THEN Carried(Inc(int))
                    ELSE int
                Mantissa(m) ==
                    IF m = Two53 THEN [m |-> Two52, e |-> h.e + 1] ELSE [m |-> m, e |-> h.e]
            IN  Mantissa(Whole(<<>> \o [i \in 1..h.w.dp |-> Digit(h.w.d, i)]))
        \* The float64 n.m * 2^n.e: nothing, beyond the largest, or f with lo
        \* and hi, the decimals halfway to the float64 below and above it.
        Between(n) ==
            LET narrow == n.m = Two52 /\ n.e > -1074
                Halfway(ints, exps) ==
                    <<>> \o [i \in 1..3 |-> Scale(Num(ints[i], Len(ints[i])), exps[i])]
                Bounds(b) == [kind |-> "num", f |-> b[1], lo |-> b[2], hi |-> b[3],
                              even |-> n.m[Len(n.m)] % 2 = 0]
                Around(m2) ==
                    Halfway(<<n.m, IF narrow THEN Dec(Twice(m2)) ELSE Dec(m2), Inc(m2)>>,
                            <<n.e, IF narrow THEN n.e - 2 ELSE n.e - 1, n.e - 1>>)
            IN  IF n.m = <<>> THEN [kind |-> "zero"]
                ELSE IF n.e > 971 THEN [kind |-> "over"]
                ELSE Bounds(Around(Twice(n.m)))
        \* The fewest digits of b.f that still name it, b.lo and b.hi naming it
        \* as well when m is even: f cut behind n digits, or the decimal of n
        \* digits after that, whichever lies inside; of both, the one nearer
        \* to f.  17 digits always do.
        Shortest(b) ==
            LET Row(n, down, up) ==
                    [n |-> n, down |-> down, up |-> up,
                     okdown |-> Less(b.lo, down) \/ (b.even /\ b.lo = down),
                     okup |-> Less(up, b.hi) \/ (b.even /\ up = b.hi)]
                Upto(n, d) == Row(n, Num(d, b.f.dp), Num(Inc(d), b.f.dp + 1))
                RoundUp(n) ==
                    IF n >= Len(b.f.d) THEN FALSE
                    ELSE IF b.f.d[n + 1] = 5 /\ n + 1 = Len(b.f.d) THEN n > 0 /\ b.f.d[n] % 2 = 1
                    ELSE b.f.d[n + 1] >= 5
                Rounded(r) ==
                    IF r.okdown /\ r.okup THEN (IF RoundUp(r.n) THEN r.up ELSE r.down)
                    ELSE IF r.okdown THEN r.down
                    ELSE r.up
                First(rows) ==
                    rows[CHOOSE i \in 1..Len(rows) :
                             /\ rows[i].okdown \/ rows[i].okup
                             /\ \A j \in 1..(i - 1) : ~(rows[j].okdown \/ rows[j].okup)]
                Digits(n) == <<>> \o [i \in 1..n |-> Upto(i - 1, SubSeq(b.f.d, 1, i - 1))]
            IN  IF b.kind = "over" THEN [err |-> TRUE, f |-> Float(Num(<<>>, 0))]
                ELSE IF b.kind = "zero" THEN [err |-> FALSE, f |-> Float(Num(<<>>, 0))]
                ELSE [err |-> FALSE,
                      f |-> Float(Rounded(First(Digits(IF Len(b.f.d) < 17 THEN Len(b.f.d) + 1
                                                       ELSE 18))))]
        \* 2^e0 is at most the decimal over 2^52.
        e0 == ((v.pt - 1) * 33219) \div 10000 - 53
    IN  IF v.d = <<>> \/ (Len(v.d) <= 15 /\ v.pt >= -300 /\ v.pt <= 300)
        THEN [err |-> FALSE, f |-> v]
        ELSE IF v.pt > 310 THEN [err |-> TRUE, f |-> Float(Num(<<>>, 0))]
        ELSE IF v.pt < -330 THEN [err |-> FALSE, f |-> Float(Num(<<>>, 0))]
        ELSE Shortest(Between(Nearest(Halvings(
                 Scale(Num(<<>> \o [i \in 1..Len(v.d) |-> DigitVal(v.d[i])], v.pt), -e0), e0))))
\* A number no float64 holds, or an array or an object holding one, be it
\* in a member that a later one of the same key replaces: the decoder
\* converts every number it reads and keeps the first error.
\* strconv.ParseFloat reports a range error; the largest float64 is
\* 1.7976931348623157e308, and what rounds to it is in range.
RECURSIVE OutOfRange(_)
OutOfRange(v) ==
    \/ v.t = "num" /\ ParseFloat(v).err
    \/ v.t = "arr" /\ \E i \in 1..Len(v.a) : OutOfRange(v.a[i])
    \/ v.t = "obj" /\ \E i \in 1..Len(v.m) : OutOfRange(v.m[i].v)

\* A map: its entries in the order encoding/json writes them, sorted by
\* key; a key set twice holds the later value.
RECURSIVE PutMember(_, _)
PutMember(ms, m) ==
    IF ms = <<>> THEN <<m>>
    ELSE IF Head(ms).k = m.k THEN <<m>> \o Tail(ms)
    ELSE IF StrLess(m.k, Head(ms).k) THEN <<m>> \o ms
    ELSE <<Head(ms)>> \o PutMember(Tail(ms), m)
RECURSIVE PutMembers(_, _)
PutMembers(ms, new) ==
    IF new = <<>> THEN ms ELSE PutMembers(PutMember(ms, Head(new)), Tail(new))
JObj(members) == [t |-> "obj", m |-> PutMembers(<<>>, members)]
JStruct(fields) == [t |-> "struct", m |-> fields]

\* A string's characters as encoding/json writes them between the quotes:
\* quote and backslash behind a backslash, the short escapes, every other
\* control character and <, >, &, U+2028, U+2029 as \u and four hex digits.
ShortEscapes ==
    <<<<Backspace, "b">>, <<FF, "f">>, <<LF, "n">>, <<CR, "r">>, <<Tab, "t">>>>
HTMLChars == {"<", ">", "&", LineSep, ParaSep}
UEscape(c) == <<Backslash, "u">> \o HexDigits(Code(c), 4, LowerHex)
Escape(s) ==
    LET IsShort(c) == \E i \in 1..Len(ShortEscapes) : ShortEscapes[i][1] = c
        ShortOf(c) == ShortEscapes[CHOOSE i \in 1..Len(ShortEscapes) : ShortEscapes[i][1] = c][2]
        EscapeChar(c) ==
            IF c \in {Quote, Backslash} THEN <<Backslash, c>>
            ELSE IF IsShort(c) THEN <<Backslash, ShortOf(c)>>
            ELSE IF IsControl(c) \/ c \in HTMLChars THEN UEscape(c)
            ELSE <<c>>
    IN  Join([i \in 1..Len(s) |-> EscapeChar(s[i])], 1, Len(s))

\* A float64 as encoding/json writes it: plain digits, or with an exponent
\* when the value is below 1e-6 or at least 1e21.
FormatNumber(v) ==
    LET Sign == IF v.neg THEN <<"-">> ELSE <<>>
        Zeros(n) == [i \in 1..n |-> "0"]
        Exp(e) == <<"e", IF e < 0 THEN "-" ELSE "+">> \o NatToChars(IF e < 0 THEN -e ELSE e)
        Body ==
            IF v.d = <<>> THEN <<"0">>
            ELSE IF v.pt <= -6 \/ v.pt >= 22
            THEN <<Head(v.d)>> \o (IF Len(v.d) > 1 THEN <<".">> \o Tail(v.d) ELSE <<>>)
                 \o Exp(v.pt - 1)
            ELSE IF v.pt <= 0 THEN <<"0", ".">> \o Zeros(-v.pt) \o v.d
            ELSE IF v.pt >= Len(v.d) THEN v.d \o Zeros(v.pt - Len(v.d))
            ELSE SubSeq(v.d, 1, v.pt) \o <<".">> \o Drop(v.d, v.pt)
    IN  Sign \o Body

\* What an encoder writes for a json.RawMessage, a JSON text: the text
\* without the white space outside its strings, and <, >, &, U+2028, U+2029
\* escaped.  A quote begins or ends a string unless an odd run of
\* backslashes stands before it.
Compact(s) ==
    LET BackslashesBefore(j) ==
            CHOOSE k \in 0..(j - 1) :
                /\ \A i \in (j - k)..(j - 1) : s[i] = Backslash
                /\ k = j - 1 \/ s[j - k - 1] # Backslash
        Delimits(j) == s[j] = Quote /\ BackslashesBefore(j) % 2 = 0
        InString(i) == Cardinality({j \in 1..(i - 1) : Delimits(j)}) % 2 = 1
        CompactChar(i) ==
            IF s[i] \in HTMLChars THEN UEscape(s[i])
            ELSE IF IsSpace(s[i]) /\ ~InString(i) THEN <<>>
            ELSE <<s[i]>>
    IN  Join([i \in 1..Len(s) |-> CompactChar(i)], 1, Len(s))

\* json.Marshal of a value: the compact text, the entries of a map sorted
\* by key, the fields of a struct in their order, a *json.RawMessage as
\* null when it is nil and as its compacted text otherwise.
RECURSIVE Marshal(_)
MarshalRaw(p) == IF p.nil THEN Marshal(JNull) ELSE Compact(p.raw)
Marshal(v) ==
    LET Comma(i) == IF i > 1 THEN <<",">> ELSE <<>>
        MarshalItems(items) ==
            Join([i \in 1..Len(items) |-> Comma(i) \o Marshal(items[i])], 1, Len(items))
        MarshalMembers(ms) ==
            Join([i \in 1..Len(ms) |->
                     Comma(i) \o <<Quote>> \o Escape(ms[i].k) \o <<Quote, ":">>
                     \o Marshal(ms[i].v)], 1, Len(ms))
    IN  CASE v.t = "null" -> <<"n", "u", "l", "l">>
          [] v.t = "bool" -> IF v.b THEN <<"t", "r", "u", "e">> ELSE <<"f", "a", "l", "s", "e">>
          [] v.t = "num" -> FormatNumber(v)
          [] v.t = "str" -> <<Quote>> \o Escape(v.s) \o <<Quote>>
          [] v.t = "arr" -> <<"[">> \o MarshalItems(v.a) \o <<"]">>
          [] v.t = "obj" -> <<"{">> \o MarshalMembers(PutMembers(<<>>, v.m)) \o <<"}">>
          [] v.t = "struct" -> <<"{">> \o MarshalMembers(v.m) \o <<"}">>
          [] v.t = "raw" -> MarshalRaw(v.p)

\* The scanner and decoder: a result is [ok, v, rest].
ParseFail == [ok |-> FALSE, v |-> JNull, rest |-> <<>>]
ParseOk(v, rest) == [ok |-> TRUE, v |-> v, rest |-> rest]

\* A string's characters up to the closing quote, s standing behind the
\* opening one.  A control character is no part of a string; an escape is
\* \" \\ \/ \b \f \n \r \t or \u and four hex digits, two of them for a
\* surrogate pair; half a pair is U+FFFD.
RECURSIVE ScanString(_, _)
ScanString(s, acc) ==
    LET HasU4(t) == Len(t) >= 4 /\ \A i \in 1..4 : IsHex(t[i])
        U4(t) == ((HexVal(t[1]) * 16 + HexVal(t[2])) * 16 + HexVal(t[3])) * 16 + HexVal(t[4])
        IsHighSurrogate(n) == n >= 55296 /\ n < 56320
        IsLowSurrogate(n) == n >= 56320 /\ n < 57344
        LowFollows(t) ==
            /\ Len(t) >= 6 /\ t[1] = Backslash /\ t[2] = "u" /\ HasU4(Drop(t, 2))
            /\ IsLowSurrogate(U4(Drop(t, 2)))
        Unicode(n, rest) ==
            IF IsHighSurrogate(n) /\ LowFollows(rest)
            THEN ScanString(Drop(rest, 6),
                            Append(acc, ToChar(65536 + (n - 55296) * 1024
                                               + (U4(Drop(rest, 2)) - 56320))))
            ELSE IF IsHighSurrogate(n) \/ IsLowSurrogate(n)
            THEN ScanString(rest, Append(acc, Replacement))
            ELSE ScanString(rest, Append(acc, ToChar(n)))
        Escaped(c, rest) ==
            IF c \in {Quote, Backslash, "/"} THEN ScanString(rest, Append(acc, c))
            ELSE IF \E i \in 1..Len(ShortEscapes) : ShortEscapes[i][2] = c
            THEN ScanString(rest, Append(acc,
                     ShortEscapes[CHOOSE i \in 1..Len(ShortEscapes) : ShortEscapes[i][2] = c][1]))
            ELSE IF c = "u" /\ HasU4(rest) THEN Unicode(U4(rest), Drop(rest, 4))
            ELSE ParseFail
    IN  IF s = <<>> THEN ParseFail
        ELSE IF Head(s) = Quote THEN ParseOk(JStr(acc), Tail(s))
        ELSE IF Head(s) = Backslash
        THEN IF Len(s) >= 2 THEN Escaped(s[2], Drop(s, 2)) ELSE ParseFail
        ELSE IF IsControl(Head(s)) THEN ParseFail
        ELSE ScanString(Tail(s), Append(acc, Head(s)))

\* A number: -? (0 | [1-9][0-9]*) (. [0-9]+)? ([eE] [+-]? [0-9]+)?
ScanNumber(s, neg) ==
    LET \* The digits t begins with: [d, rest].
        Split(t, k) == [d |-> SubSeq(t, 1, k), rest |-> Drop(t, k)]
        ScanDigits(t) ==
            Split(t, CHOOSE k \in 0..Len(t) :
                         /\ \A i \in 1..k : IsDigit(t[i])
                         /\ k = Len(t) \/ ~IsDigit(t[k + 1]))
        RECURSIVE DigitsValue(_, _)
        DigitsValue(d, acc) ==
            IF d = <<>> THEN acc ELSE DigitsValue(Tail(d), acc * 10 + DigitVal(Head(d)))
        Made(int, frac, exp, rest) ==
            ParseOk(Decimal(neg, int \o frac, Len(int) + exp), rest)
        Exponent(int, frac, sign, e) ==
            IF e.d = <<>> THEN ParseFail
            ELSE Made(int, frac, sign * DigitsValue(e.d, 0), e.rest)
        AfterFraction(int, frac, rest) ==
            IF rest # <<>> /\ Head(rest) \in {"e", "E"}
            THEN IF Len(rest) >= 2 /\ rest[2] \in {"+", "-"}
                 THEN Exponent(int, frac, IF rest[2] = "-" THEN -1 ELSE 1,
                               ScanDigits(Drop(rest, 2)))
                 ELSE Exponent(int, frac, 1, ScanDigits(Tail(rest)))
            ELSE Made(int, frac, 0, rest)
        Fraction(int, f) ==
            IF f.d = <<>> THEN ParseFail ELSE AfterFraction(int, f.d, f.rest)
        AfterInt(int, rest) ==
            IF rest # <<>> /\ Head(rest) = "." THEN Fraction(int, ScanDigits(Tail(rest)))
            ELSE AfterFraction(int, <<>>, rest)
        IntPart(i) == AfterInt(i.d, i.rest)
    IN  IF s = <<>> \/ ~IsDigit(Head(s)) THEN ParseFail
        ELSE IF Head(s) = "0" THEN AfterInt(<<"0">>, Tail(s))
        ELSE IntPart(ScanDigits(s))

RECURSIVE ParseValue(_)
RECURSIVE ParseMembers(_, _)
RECURSIVE ParseItems(_, _)
\* The members of an object as they are written, a key as often as it
\* stands there, s standing behind the brace or a comma.
ParseMembers(s, acc) ==
    LET AfterValue(ms, rest) ==
            IF rest = <<>> THEN ParseFail
            ELSE IF Head(rest) = "}" THEN ParseOk([t |-> "obj", m |-> ms], Tail(rest))
            ELSE IF Head(rest) = "," THEN ParseMembers(SkipSpace(Tail(rest)), ms)
            ELSE ParseFail
        AfterColon(key, val) ==
            IF ~val.ok THEN ParseFail
            ELSE AfterValue(Append(acc, Member(key.v.s, val.v)), SkipSpace(val.rest))
        AfterString(key, rest) ==
            IF rest = <<>> \/ Head(rest) # ":" THEN ParseFail
            ELSE AfterColon(key, ParseValue(Tail(rest)))
        AfterKey(key) ==
            IF ~key.ok THEN ParseFail ELSE AfterString(key, SkipSpace(key.rest))
    IN  IF s = <<>> \/ Head(s) # Quote THEN ParseFail
        ELSE AfterKey(ScanString(Tail(s), <<>>))
\* The items of an array, s standing behind the bracket or a comma.
ParseItems(s, acc) ==
    LET AfterValue(items, rest) ==
            IF rest = <<>> THEN ParseFail
            ELSE IF Head(rest) = "]" THEN ParseOk(JArr(items), Tail(rest))
            ELSE IF Head(rest) = "," THEN ParseItems(Tail(rest), items)
            ELSE ParseFail
        Item(val) ==
            IF ~val.ok THEN ParseFail
            ELSE AfterValue(Append(acc, val.v), SkipSpace(val.rest))
    IN  Item(ParseValue(s))
\* The JSON value a text begins with, white space before it skipped, and
\* the text behind it.
ParseValue(text) ==
    LET Literal(s, txt, v) ==
            IF IsPrefix(txt, s) THEN ParseOk(v, Drop(s, Len(txt))) ELSE ParseFail
        InObject(s) ==
            IF s # <<>> /\ Head(s) = "}" THEN ParseOk([t |-> "obj", m |-> <<>>], Tail(s))
            ELSE ParseMembers(s, <<>>)
        InArray(s) ==
            IF s # <<>> /\ Head(s) = "]" THEN ParseOk(JArr(<<>>), Tail(s))
            ELSE ParseItems(s, <<>>)
        Value(s) ==
            IF s = <<>> THEN ParseFail
            ELSE IF Head(s) = "n" THEN Literal(s, <<"n", "u", "l", "l">>, JNull)
            ELSE IF Head(s) = "t" THEN Literal(s, <<"t", "r", "u", "e">>, JBool(TRUE))
            ELSE IF Head(s) = "f" THEN Literal(s, <<"f", "a", "l", "s", "e">>, JBool(FALSE))
            ELSE IF Head(s) = "-" THEN ScanNumber(Tail(s), TRUE)
            ELSE IF IsDigit(Head(s)) THEN ScanNumber(s, FALSE)
            ELSE IF Head(s) = Quote THEN ScanString(Tail(s), <<>>)
            ELSE IF Head(s) = "{" THEN InObject(SkipSpace(Tail(s)))
            ELSE IF Head(s) = "[" THEN InArray(SkipSpace(Tail(s)))
            ELSE ParseFail
    IN  Value(SkipSpace(text))

\* A *json.RawMessage: nil, or a pointer to a JSON text.
NilPtr == [nil |-> TRUE, raw |-> <<>>]
Ptr(raw) == [nil |-> FALSE, raw |-> raw]


(***************************************************************************)
(* Go values a Handler returns (interface{}).                              *)
(*   [g |-> "val", v]   a JSON-encodable value; v = JNull is the nil       *)
(*                      interface                                          *)
(*   [g |-> "err", id, text]  an error that is not a *json2.Error          *)
(*   [g |-> "jerr", e]  a *json2.Error, e = NilError for the nil pointer   *)
(*   [g |-> "chan"]     a value encoding/json refuses (chan, func, NaN)    *)
(***************************************************************************)
GoVal(v) == [g |-> "val", v |-> v]
GoNil == GoVal(JNull)
GoErr(id, text) == [g |-> "err", id |-> id, text |-> text]
GoChan == [g |-> "chan"]
NilError == [nil |-> TRUE, Code |-> 0, Message |-> <<>>, Data |-> JNull]
ErrorPtr(code, msg, data) == [nil |-> FALSE, Code |-> code, Message |-> msg, Data |-> data]
GoJErr(e) == [g |-> "jerr", e |-> e]

\* i.(error): the dynamic type implements error.
IsError(i) == i.g \in {"err", "jerr"}
\* err.Error(): [panic, text].  (*Error).Error reads e.Message, a nil pointer
\* dereference for the nil *Error.
ErrorText(i) ==
    IF i.g = "jerr" THEN [panic |-> i.e.nil, text |-> i.e.Message]
    ELSE [panic |-> FALSE, text |-> i.text]

\* json.Marshal of a value a handler or a client holds.  An Error is a
\* struct of three members; an error made by errors.New or fmt.Errorf has
\* no exported field; a channel is refused.
KCode == <<"c", "o", "d", "e">>
KMessage == <<"m", "e", "s", "s", "a", "g", "e">>
KData == <<"d", "a", "t", "a">>
ErrorStruct(e) ==
    JStruct(<<Member(KCode, JNum(e.Code)), Member(KMessage, JStr(e.Message)),
              Member(KData, e.Data)>>)
CanMarshal(i) == i.g # "chan"
GoJSON(i) ==
    CASE i.g = "val" -> i.v
      [] i.g = "err" -> JStruct(<<>>)
      [] i.g = "jerr" -> IF i.e.nil THEN JNull ELSE ErrorStruct(i.e)
MarshalGo(i) == Marshal(GoJSON(i))

(***************************************************************************)
(* context.Context: the values the packages attach.                        *)
(***************************************************************************)
NoRequest == [nil |-> TRUE]
\* from is the HTTP request whose context a context derives from; done says
\* whether the context is cancelled at the moment it is looked at.
Background == [req |-> "none", w |-> "none", jreq |-> NoRequest, from |-> "none", done |-> FALSE]
\* r.Context()
RequestContext(r) == [Background EXCEPT !.from = r]
WithRequest(ctx, r) == [ctx EXCEPT !.req = r]
WithResponseWriter(ctx, w) == [ctx EXCEPT !.w = w]
WithJSONRequestFresh(ctx, req) == [Background EXCEPT !.jreq = [nil |-> FALSE, req |-> req]]
WithJSONRequest(ctx, req) == [ctx EXCEPT !.jreq = [nil |-> FALSE, req |-> req]]

\* lrpchttp.ContextRequest / lrpchttp.ContextResponseWriter
ContextRequest(ctx) == ctx.req
ContextResponseWriterShared(ctx) == IF ctx.w = "none" THEN "none" ELSE "r1"
ContextResponseWriter(ctx) == ctx.w
\* json2.ContextRequest
JSONContextRequest(ctx) == ctx.jreq

(***************************************************************************)
(* Method names.                                                           *)
(***************************************************************************)
MEcho == <<"E", "c", "h", "o">>
MEch == <<"E", "c", "h">>
MError1 == <<"E", "r", "r", "o", "r", "1">>
MError2 == <<"E", "r", "r", "o", "r", "2">>
MFoo == <<"f", "o", "o">>
MCtx == <<"C", "o", "n", "t", "e", "x", "t", "R", "e", "q", "u", "e", "s", "t">>
MNilError == <<"N", "i", "l", "E">>
MChan == <<"C", "h", "a", "n">>
MCtxErr == <<"C", "t", "x", "E", "r", "r">>

(***************************************************************************)
(* package json2: Request, NewRequest, call                                *)
(***************************************************************************)
Version2 == <<"2", ".", "0">>
MkRequest(ver, method, params, id) ==
    [Version |-> ver, Method |-> method, Params |-> params, ID |-> id]
ZeroRequest == MkRequest(<<>>, <<>>, NilPtr, NilPtr)

\* rand.Read(idr): it fails, or idr holds random bytes, hex their text.
RandFails == [fails |-> TRUE, hex |-> <<>>]
RandHex(hex) == [fails |-> FALSE, hex |-> hex]
\* NewRequest(method, params), rnd being what rand.Read did.
NewRequest(method, params, rnd) ==
    IF rnd.fails THEN [err |-> "rand: read failed", req |-> ZeroRequest]
    ELSE IF ~CanMarshal(params) THEN [err |-> "json: unsupported type", req |-> ZeroRequest]
    ELSE [err |-> "",
          req |-> MkRequest(Version2, method, Ptr(MarshalGo(params)),
                            Ptr(Marshal(JStr(rnd.hex))))]

\* Calls.  A json2 call holds its context and the decoded Request; a
\* DirectCall holds context, method and the already-typed argument.
NoCall == [kind |-> "none"]
JSONCall(ctx, req) == [kind |-> "json2", ctx |-> ctx, req |-> req]
NewDirectCall(ctx, method, args) ==
    [kind |-> "direct", ctx |-> ctx, method |-> method, args |-> args]

\* DirectCall.Context returns context.Background() for a nil ctx.
NilContext == [isnil |-> TRUE]
CallContext(c) ==
    IF c.kind = "direct" /\ c.ctx = NilContext THEN Background ELSE c.ctx
CallMethod(c) == IF c.kind = "json2" THEN c.req.Method ELSE c.method

\* The outcome of UnmarshalArgs(&target): a panic, an error, or the value
\* now held by the target (cur when nothing was stored).
ArgsPanic == [panic |-> TRUE, err |-> "", v |-> GoNil]
ArgsErr(text, cur) == [panic |-> FALSE, err |-> text, v |-> cur]
ArgsOk(v) == [panic |-> FALSE, err |-> "", v |-> v]

\* A value as it is stored: a number as the float64 nearest to it; an
\* array item or a map entry that is a number out of range is left nil; an
\* object as a map, the members put into it one after the other.
RECURSIVE Stored(_)
Stored(v) ==
    LET Float(p) == IF p.err THEN JNull ELSE p.f IN
    IF v.t = "num" THEN Float(ParseFloat(v))
    ELSE IF v.t = "arr" THEN JArr(<<>> \o [i \in 1..Len(v.a) |-> Stored(v.a[i])])
    ELSE IF v.t = "obj"
    THEN JObj(<<>> \o [i \in 1..Len(v.m) |-> Member(v.m[i].k, Stored(v.m[i].v))])
    ELSE v

\* json.Unmarshal(raw, &target).  The text is checked as a whole first.  A
\* target that is an interface{} takes any value; a string takes a string;
\* a map[string]interface{} takes an object, whose entries are added to
\* the ones it holds; null sets an interface or a map to nil and leaves a
\* string alone.  A value of the wrong kind, or a number no float64 holds,
\* is an error, and what was decoded apart from it is stored.
Unmarshal(raw, shape, cur) ==
    LET Store(p, stored, range) ==
            LET Range(into) ==
                    IF ~range THEN ArgsOk(into)
                    ELSE ArgsErr("json: cannot unmarshal number into Go value of type float64",
                                 IF p.v.t = "num" THEN cur ELSE into)
                Merged ==
                    IF cur.g = "val" /\ cur.v.t = "obj"
                    THEN GoVal([t |-> "obj", m |-> PutMembers(cur.v.m, stored.m)])
                    ELSE GoVal(stored)
            IN  IF ~p.ok \/ SkipSpace(p.rest) # <<>> THEN ArgsErr("json: syntax error", cur)
                ELSE IF shape = "nonptr" THEN ArgsErr("json: Unmarshal(non-pointer)", cur)
                ELSE IF shape = "any" THEN Range(GoVal(stored))
                ELSE IF p.v.t = "null" THEN ArgsOk(IF shape = "map" THEN GoNil ELSE cur)
                ELSE IF shape = "string" /\ p.v.t = "str" THEN ArgsOk(GoVal(p.v))
                ELSE IF shape = "map" /\ p.v.t = "obj" THEN Range(Merged)
                ELSE ArgsErr("json: cannot unmarshal into Go value", cur)
        Parsed(p) == Store(p, Stored(p.v), OutOfRange(p.v))
    IN  Parsed(ParseValue(raw))

\* call.UnmarshalArgs: json.Unmarshal(*c.req.Params, i).  Dereferencing a nil
\* Params is a run-time panic.
JSONUnmarshalArgs(c, shape, cur) ==
    IF c.req.Params.nil THEN ArgsPanic
    ELSE Unmarshal(c.req.Params.raw, shape, cur)

\* Go's assignability of the stored argument to the target: everything but
\* the nil interface (whose reflect.Value is the zero Value) goes into an
\* interface{}, a string into a string, a map into a map.
Assignable(args, shape) ==
    \/ shape = "any" /\ args # GoNil
    \/ shape = "string" /\ args.g = "val" /\ args.v.t = "str"
    \/ shape = "map" /\ args.g = "val" /\ args.v.t = "obj"

\* DirectCall.UnmarshalArgs(i): a target that is no pointer cannot be set
\* and gives an error; otherwise reflect.Value.Set stores the argument, and
\* panics when it is not assignable.
DirectUnmarshalArgs(c, shape, cur) ==
    IF shape = "nonptr" THEN ArgsErr("type isn't setable", cur)
    ELSE IF ~Assignable(c.args, shape) THEN ArgsPanic
    ELSE ArgsOk(c.args)

UnmarshalArgs(c, shape, cur) ==
    IF c.kind = "json2" THEN JSONUnmarshalArgs(c, shape, cur)
    ELSE DirectUnmarshalArgs(c, shape, cur)

(***************************************************************************)
(* Handlers.  A handler's outcome is [panic, ret].                         *)
(***************************************************************************)
Returns(v) == [panic |-> FALSE, ret |-> v]
Panics == [panic |-> TRUE, ret |-> GoNil]

TxtSomeError == <<"s", "o", "m", "e", " ", "e", "r", "r", "o", "r">>
TxtAnotherError == <<"a", "n", "o", "t", "h", "e", "r", " ", "e", "r", "r", "o", "r">>
ErrSome == GoErr("errors.New", TxtSomeError)
StrFoo == <<"f", "o", "o">>
StrBar == <<"b", "a", "r">>
FooBar == JObj(<<Member(StrFoo, JStr(StrBar))>>)
Err2Code == 1
err2 == ErrorPtr(Err2Code, TxtAnotherError, FooBar)
\* package json2's error codes.
ErrParse == -32700
ErrInvalidRequest == -32600
ErrNoMethod == -32601
ErrInvalidParams == -32602
ErrInternal == -32603
ErrServer == -32000
\* An Error a handler makes with one of the package's codes.
errParams == ErrorPtr(ErrInvalidParams, TxtSomeError, JNull)

\* The handlers registered by the package's tests, and more a user may
\* register: one returning a nil *Error, one returning a value that cannot
\* be encoded, one returning a plain JSON value, one looking at its
\* context, one returning an Error with a code of the package.
HandlerEcho(c) ==
    LET Echo(a) == IF a.panic THEN Panics ELSE Returns(a.v)
    IN  Echo(UnmarshalArgs(c, "any", GoNil))

HandlerContextRequest(c) ==
    LET r == JSONContextRequest(CallContext(c)) IN
    IF r.nil THEN Panics
    ELSE IF r.req.Params.nil THEN Panics
    ELSE Returns(GoVal(JStr(r.req.Params.raw)))

\* package lrpc's test handler echo and its result echoRes{Method, Args}:
\* the arguments are read into an interface{}; an error is returned as it
\* is (its text is only ever copied).
KeyMethod == <<"M", "e", "t", "h", "o", "d">>
KeyArgs == <<"A", "r", "g", "s">>
echoRes(Method, Args) ==
    GoVal(JStruct(<<Member(KeyMethod, JStr(Method)), Member(KeyArgs, Args.v)>>))
echo(c) ==
    LET Res(a) == IF a.panic THEN Panics
                  ELSE IF a.err # "" THEN Returns(GoErr("UnmarshalArgs", a.err))
                  ELSE Returns(echoRes(CallMethod(c), a.v))
    IN  Res(UnmarshalArgs(c, "any", GoNil))

\* A handler that observes its context: it returns c.Context().Err().
ErrCanceled ==
    GoErr("context.Canceled",
          <<"c", "o", "n", "t", "e", "x", "t", " ", "c", "a", "n", "c", "e", "l", "e", "d">>)
HandlerCtxErr(c) == IF CallContext(c).done THEN Returns(ErrCanceled) ELSE Returns(GoNil)

RunHandler(h, c) ==
    CASE h = "Echo" -> HandlerEcho(c)
      [] h = "CtxErr" -> HandlerCtxErr(c)
      [] h = "echo" -> echo(c)
      [] h = "Error1" -> Returns(ErrSome)
      [] h = "Error2" -> Returns(GoJErr(err2))
      [] h = "InvalidParams" -> Returns(GoJErr(errParams))
      [] h = "ContextRequest" -> HandlerContextRequest(c)
      [] h = "Nil" -> Returns(GoNil)
      [] h = "NilError" -> Returns(GoJErr(NilError))
      [] h = "Chan" -> Returns(GoChan)

(***************************************************************************)
(* package lrpc: ServeMux                                                  *)
(***************************************************************************)
TxtMethodNotFound ==
    <<"m", "e", "t", "h", "o", "d", " ", "n", "o", "t", " ", "f", "o", "u", "n", "d">>
ErrMethodNotFound == GoErr("lrpc.ErrMethodNotFound", TxtMethodNotFound)

\* The outcome of a dispatch: what the handler did, and which handlers ran.
Dispatched(out, invoked) == [panic |-> out.panic, ret |-> out.ret, invoked |-> invoked]

\* ServeMux.ServeRPC: sm[c.Method()] if present, else ErrMethodNotFound.
LookupPrefix(sm, m) == {k \in DOMAIN sm : IsPrefix(m, k)}
ServeRPCPrefix(sm, c) ==
    LET ks == LookupPrefix(sm, CallMethod(c)) IN
    IF ks # {} THEN LET k == CHOOSE k \in ks : TRUE IN
                    Dispatched(RunHandler(sm[k], c), <<sm[k]>>)
    ELSE Dispatched(Returns(ErrMethodNotFound), <<>>)
ServeRPCNilOnMiss(sm, c) ==
    IF CallMethod(c) \in DOMAIN sm
    THEN Dispatched(RunHandler(sm[CallMethod(c)], c), <<sm[CallMethod(c)]>>)
    ELSE Dispatched(Returns(GoNil), <<>>)
ServeRPC(sm, c) ==
    IF CallMethod(c) \in DOMAIN sm
    THEN Dispatched(RunHandler(sm[CallMethod(c)], c), <<sm[CallMethod(c)]>>)
    ELSE Dispatched(Returns(ErrMethodNotFound), <<>>)

\* ServeMux{}: the empty, non-nil map.
EmptyMux == [k \in {} |-> "Nil"]
\* ServeMux.Handle / HandleFunc: sm[method] = h; return sm.
HandleKeepFirst(sm, method, h) ==
    [k \in DOMAIN sm \cup {method} |-> IF k \in DOMAIN sm THEN sm[k] ELSE h]
Handle(sm, method, h) ==
    [k \in DOMAIN sm \cup {method} |-> IF k = method THEN h ELSE sm[k]]

\* A ServeMux value is a Go map: the nil map, or a reference to a table of
\* entries.  The entries of the nil map are those of no map: reading finds
\* nothing, assigning panics.
\* The two ways the package documentation makes a registry.
Makes == {"ServeMux{}", "new(ServeMux)"}
MakeMux(how) ==
    IF how = "new(ServeMux)" THEN [nil |-> TRUE, id |-> "none"] ELSE [nil |-> FALSE, id |-> "m1"]
\* m.Handle(method, h) on the map value m whose entries are sm: the entries
\* afterwards, the value returned, and whether the assignment panicked.
HandleOn(m, sm, method, h) ==
    IF m.nil THEN [panic |-> TRUE, entries |-> sm, ret |-> m]
    ELSE [panic |-> FALSE, entries |-> Handle(sm, method, h), ret |-> m]

(***************************************************************************)
(* package json2: the wire texts.                                          *)
(***************************************************************************)
KJsonrpc == <<"j", "s", "o", "n", "r", "p", "c">>
KMethod == <<"m", "e", "t", "h", "o", "d">>
KParams == <<"p", "a", "r", "a", "m", "s">>
KID == <<"i", "d">>
KResult == <<"r", "e", "s", "u", "l", "t">>
KError == <<"e", "r", "r", "o", "r">>

\* The encoder refuses a RawMessage that is no JSON text (json.Valid: one
\* value, white space around it).
RawValid(p) ==
    LET Valid(v) == v.ok /\ SkipSpace(v.rest) = <<>> IN p.nil \/ Valid(ParseValue(p.raw))

\* json.NewEncoder(body).Encode(&req): every member is written (no
\* omitempty on Request), then a newline.
EncodeRequest(req) ==
    Marshal(JStruct(<<Member(KJsonrpc, JStr(req.Version)), Member(KMethod, JStr(req.Method)),
                      Member(KParams, JRaw(req.Params)), Member(KID, JRaw(req.ID))>>))
    \o <<LF>>

\* The decoder's walk over an object text, keeping each member's raw text
\* and decoded value: [ok, ms, rest].
ScanFail == [ok |-> FALSE, ms |-> <<>>, rest |-> <<>>]
RECURSIVE ScanMembers(_, _)
ScanMembers(s, acc) ==
    LET AfterValue(ms, rest) ==
            IF rest = <<>> THEN ScanFail
            ELSE IF Head(rest) = "}" THEN [ok |-> TRUE, ms |-> ms, rest |-> Tail(rest)]
            ELSE IF Head(rest) = "," THEN ScanMembers(SkipSpace(Tail(rest)), ms)
            ELSE ScanFail
        AfterColon(key, txt, val) ==
            IF ~val.ok THEN ScanFail
            ELSE AfterValue(Append(acc, [k |-> key.v.s, v |-> val.v,
                                         raw |-> SubSeq(txt, 1, Len(txt) - Len(val.rest))]),
                            SkipSpace(val.rest))
        Value(key, txt) == AfterColon(key, txt, ParseValue(txt))
        AfterString(key, rest) ==
            IF rest = <<>> \/ Head(rest) # ":" THEN ScanFail
            ELSE Value(key, SkipSpace(Tail(rest)))
        AfterKey(key) ==
            IF ~key.ok THEN ScanFail ELSE AfterString(key, SkipSpace(key.rest))
    IN  IF s = <<>> \/ Head(s) # Quote THEN ScanFail
        ELSE AfterKey(ScanString(Tail(s), <<>>))
\* s begins with the brace.
ScanObject(s) ==
    LET Inside(in) ==
            IF in # <<>> /\ Head(in) = "}" THEN [ok |-> TRUE, ms |-> <<>>, rest |-> Tail(in)]
            ELSE ScanMembers(in, <<>>)
    IN  IF s # <<>> /\ Head(s) = "{" THEN Inside(SkipSpace(Tail(s))) ELSE ScanFail

\* The field of Request a key names: the field with that tag, or else the
\* field whose tag is the key but for the case of its letters; the long s
\* and the Kelvin sign count as the letters s and k.
FieldOf(k) ==
    LET RequestTags == {KJsonrpc, KMethod, KParams, KID}
        FoldChar(c) ==
            IF c = ToChar(383) THEN "S"
            ELSE IF c = ToChar(8490) THEN "K"
            ELSE IF \E i \in 66..91 : Printable[i] = c
            THEN Printable[(CHOOSE i \in 66..91 : Printable[i] = c) - 32]
            ELSE c
        Fold(key) == [i \in 1..Len(key) |-> FoldChar(key[i])]
    IN  IF k \in RequestTags THEN k
        ELSE IF \E f \in RequestTags : Fold(f) = Fold(k)
        THEN CHOOSE f \in RequestTags : Fold(f) = Fold(k)
        ELSE <<>>
\* Storing the members into a Request, one after another: a string field
\* takes a string (null leaves it alone, anything else is a type error); a
\* *json.RawMessage field becomes nil on null and points to the raw text
\* otherwise.
RECURSIVE FillRequest(_, _, _)
FillRequest(ms, req, bad) ==
    IF ms = <<>> THEN [bad |-> bad, req |-> req]
    ELSE LET m == Head(ms)
             StoreString(cur) ==
                 IF m.v.t = "str" THEN [bad |-> FALSE, s |-> m.v.s]
                 ELSE IF m.v.t = "null" THEN [bad |-> FALSE, s |-> cur]
                 ELSE [bad |-> TRUE, s |-> cur]
             StoreRaw == IF m.v.t = "null" THEN NilPtr ELSE Ptr(m.raw)
             Version(st) == FillRequest(Tail(ms), [req EXCEPT !.Version = st.s], bad \/ st.bad)
             Method(st) == FillRequest(Tail(ms), [req EXCEPT !.Method = st.s], bad \/ st.bad)
             Field(f) ==
                 IF f = KJsonrpc THEN Version(StoreString(req.Version))
                 ELSE IF f = KMethod THEN Method(StoreString(req.Method))
                 ELSE IF f = KParams
                 THEN FillRequest(Tail(ms), [req EXCEPT !.Params = StoreRaw], bad)
                 ELSE IF f = KID
                 THEN FillRequest(Tail(ms), [req EXCEPT !.ID = StoreRaw], bad)
                 ELSE FillRequest(Tail(ms), req, bad)
         IN  Field(FieldOf(m.k))

\* json.NewDecoder(r.Body).Decode(&c.req): reads the first JSON value of the
\* body, white space before it skipped; what follows the value is left
\* unread, whatever it is.  The value is checked as a whole before anything
\* is stored: null stores nothing, and a value that is no object is a type
\* error.
DecodeRequest(body) ==
    LET Decoded(err, req) == [err |-> err, req |-> req]
        Filled(f) ==
            IF f.bad THEN Decoded("json: cannot unmarshal into Go struct field", f.req)
            ELSE Decoded("", f.req)
        FromObject(o) ==
            IF ~o.ok THEN Decoded("json: syntax error", ZeroRequest)
            ELSE Filled(FillRequest(o.ms, ZeroRequest, FALSE))
        FromOther(p) ==
            IF ~p.ok THEN Decoded("json: syntax error", ZeroRequest)
            ELSE IF p.v.t = "null" THEN Decoded("", ZeroRequest)
            ELSE Decoded("json: cannot unmarshal into Go value of type json2.Request",
                         ZeroRequest)
        First(s) ==
            IF s = <<>> THEN Decoded("EOF", ZeroRequest)
            ELSE IF Head(s) = "{" THEN FromObject(ScanObject(s))
            ELSE FromOther(ParseValue(s))
    IN  First(SkipSpace(body))

(***************************************************************************)
(* package json2: Codec                                                    *)
(***************************************************************************)

\* Codec.NewCall: [err, call].
NewCallBare(ctx, w, body) ==
    LET Made(d) ==
            IF d.err # "" THEN [err |-> d.err, call |-> NoCall]
            ELSE [err |-> "", call |-> JSONCall(ctx, d.req)]
    IN  Made(DecodeRequest(body))
NewCall(ctx, w, body) ==
    LET Made(d) ==
            IF d.err # "" THEN [err |-> d.err, call |-> NoCall]
            ELSE [err |-> "", call |-> JSONCall(WithJSONRequest(ctx, d.req), d.req)]
    IN  Made(DecodeRequest(body))

\* The Response value Respond builds.
BuildResponseStandardCodes(c, i) ==
    [Version |-> Version2,
     Result |-> IF IsError(i) THEN GoNil ELSE i,
     Error |-> IF IsError(i)
               THEN IF i.g = "jerr" THEN i.e
                    ELSE IF i = ErrMethodNotFound
                    THEN ErrorPtr(ErrNoMethod, ErrorText(i).text, JNull)
                    ELSE ErrorPtr(ErrServer, ErrorText(i).text, JNull)
               ELSE NilError,
     ID |-> c.req.ID]
BuildResponseWrapAll(c, i) ==
    [Version |-> Version2,
     Result |-> IF IsError(i) THEN GoNil ELSE i,
     Error |-> IF IsError(i) THEN ErrorPtr(ErrServer, ErrorText(i).text, JNull) ELSE NilError,
     ID |-> c.req.ID]
BuildResponseBoth(c, i) ==
    [Version |-> Version2,
     Result |-> IF i.g = "jerr" THEN GoVal(JStr(ErrorText(i).text)) ELSE i,
     Error |-> IF IsError(i)
               THEN IF i.g = "jerr" THEN i.e ELSE ErrorPtr(ErrServer, ErrorText(i).text, JNull)
               ELSE NilError,
     ID |-> c.req.ID]
BuildResponse(c, i) ==
    [Version |-> Version2,
     Result |-> IF IsError(i) THEN GoNil ELSE i,
     Error |-> IF IsError(i)
               THEN IF i.g = "jerr" THEN i.e ELSE ErrorPtr(ErrServer, ErrorText(i).text, JNull)
               ELSE NilError,
     ID |-> c.req.ID]

\* json.NewEncoder(w).Encode(&res): result and error are omitempty, the
\* members of Error and the id are always written.
EncodeResponse(res) ==
    Marshal(JStruct(<<Member(KJsonrpc, JStr(res.Version))>>
                    \o (IF res.Result = GoNil THEN <<>>
                        ELSE <<Member(KResult, GoJSON(res.Result))>>)
                    \o (IF res.Error.nil THEN <<>>
                        ELSE <<Member(KError, ErrorStruct(res.Error))>>)
                    \o <<Member(KID, JRaw(res.ID))>>))
    \o <<LF>>
\* Whether the encoder can write res, and its error when it cannot: the
\* result is of a type it refuses, or the id is no JSON text.
Encodable(res) == CanMarshal(res.Result) /\ RawValid(res.ID)
EncodeError(res) ==
    IF ~CanMarshal(res.Result) THEN "json: unsupported type"
    ELSE "json: error calling MarshalJSON for type *json.RawMessage"

(***************************************************************************)
(* net/http: the response sink (http.ResponseWriter) and http.Error.       *)
(***************************************************************************)
StatusNone == 0
StatusOK == 200
StatusBadRequest == 400
StatusInternalServerError == 500
CTJSON == "application/json; charset=utf-8"
CTText == "text/plain; charset=utf-8"

\* ctype is the header map's Content-Type; status and sent are what went
\* out when the header was committed; body is what was written, by whom.
NewSink == [ctype |-> "", committed |-> FALSE, status |-> StatusNone, sent |-> "", body |-> <<>>]
SetContentType(s, ct) == [s EXCEPT !.ctype = ct]
\* WriteHeader: the first call commits status and headers, later calls are
\* ignored.
WriteHeader(s, code) ==
    IF s.committed THEN s
    ELSE [s EXCEPT !.committed = TRUE, !.status = code, !.sent = s.ctype]
\* Write: commits 200 if nothing was committed, then appends.
Write(s, chunk) ==
    LET c == WriteHeader(s, StatusOK) IN [c EXCEPT !.body = Append(c.body, chunk)]
CodecChunk(data) == [by |-> "codec", data |-> data]
ErrorChunk(code, msg) == [by |-> "http.Error", code |-> code, msg |-> msg]
\* http.Error(w, msg, code)
HTTPError(s, msg, code) ==
    Write(WriteHeader(SetContentType(s, CTText), code), ErrorChunk(code, msg))

\* Codec.Respond on the sink s = ContextResponseWriter(cc.Context()):
\* [err, sink].  fail says whether the sink's Write fails, and after how
\* many bytes.
WriteWorks == [broken |-> FALSE, n |-> 0]
WriteBreaks(n) == [broken |-> TRUE, n |-> n]
RespondErrorStatus(s, c, i, fail) ==
    LET Encode(res, s1, text) ==
            IF ~Encodable(res)
            THEN [err |-> EncodeError(res), sink |-> s1, resp |-> res]
            ELSE IF fail.broken
            THEN [err |-> "write: broken pipe", resp |-> res,
                  sink |-> Write(s1, CodecChunk(SubSeq(text, 1, fail.n)))]
            ELSE [err |-> "", sink |-> Write(s1, CodecChunk(text)), resp |-> res]
        Built(res) == Encode(res,
                             IF res.Error.nil THEN SetContentType(s, CTJSON)
                             ELSE WriteHeader(SetContentType(s, CTJSON), StatusInternalServerError),
                             IF Encodable(res) THEN EncodeResponse(res) ELSE <<>>)
    IN  Built(BuildResponse(c, i))
RespondSwallow(s, c, i, fail) ==
    LET Encode(res, s1, text) ==
            IF ~Encodable(res) THEN [err |-> "", sink |-> s1, resp |-> res]
            ELSE IF fail.broken
            THEN [err |-> "", resp |-> res,
                  sink |-> Write(s1, CodecChunk(SubSeq(text, 1, fail.n)))]
            ELSE [err |-> "", sink |-> Write(s1, CodecChunk(text)), resp |-> res]
        Built(res) == Encode(res, SetContentType(s, CTJSON),
                             IF Encodable(res) THEN EncodeResponse(res) ELSE <<>>)
    IN  Built(BuildResponse(c, i))
Respond(s, c, i, fail) ==
    LET Encode(res, s1, text) ==
            IF ~Encodable(res)
            THEN [err |-> EncodeError(res), sink |-> s1, resp |-> res]
            ELSE IF fail.broken
            THEN [err |-> "write: broken pipe", resp |-> res,
                  sink |-> Write(s1, CodecChunk(SubSeq(text, 1, fail.n)))]
            ELSE [err |-> "", sink |-> Write(s1, CodecChunk(text)), resp |-> res]
        Built(res) == Encode(res, SetContentType(s, CTJSON),
                             IF Encodable(res) THEN EncodeResponse(res) ELSE <<>>)
    IN  Built(BuildResponse(c, i))

(***************************************************************************)
(* The inputs.                                                             *)
(***************************************************************************)
\* The HTTP requests: "r1" is the one request the serial specification
\* serves.
Reqs == {"r1"}

\* Registrations: each handler under its own name, and Echo's name given to
\* another handler (an overwrite).
Registrations ==
    {<<MEcho, "Echo">>, <<MError1, "Error1">>, <<MError2, "Error2">>, <<MCtx, "ContextRequest">>,
     <<MFoo, "Nil">>, <<MNilError, "NilError">>, <<MChan, "Chan">>, <<MEcho, "Error1">>,
     <<MError2, "InvalidParams">>}

\* Method names a client asks for: MEch is a proper prefix of MEcho.
ReqMethods == {MEcho, MEch, MError1, MError2, MCtx, MFoo, MNilError, MChan}
\* Params values a client sends.
ParamValues == {FooBar, JNum(42), JNull}
\* The hex text of NewRequest's random id.
HexIDs == {RandHex(<<"a", "1">>)}
\* Ids a hand-built Request carries: a number, a nil pointer.
HandIDs == {Ptr(Marshal(JNum(7))), NilPtr}

\* A Request built by hand, as the tests do: no Version.
HandRequest(method, params, id) == MkRequest(<<>>, method, Ptr(Marshal(params)), id)

\* The Requests a client sends: those NewRequest returned without an error
\* (rand.Read gives the bytes of an id, or fails), for every method with
\* every params value and for Echo with params that are an error value or a
\* channel; and the hand-built ones.
ClientRequests ==
    LET Rands == HexIDs \cup {RandFails}
        NewRequests ==
            {NewRequest(m, GoVal(p), h) : m \in ReqMethods, p \in ParamValues, h \in Rands}
            \cup {NewRequest(MEcho, a, h) : a \in {ErrSome, GoJErr(err2), GoChan}, h \in Rands}
    IN  {n.req : n \in {x \in NewRequests : x.err = ""}}
        \cup {HandRequest(m, p, id) : m \in ReqMethods, p \in ParamValues, id \in HandIDs}

\* Bodies no Request value encodes to: members left out, an id that is the
\* text null, a method that is no string, texts that are no object, texts
\* that are no JSON, nothing at all.
OtherBodies ==
    LET Texts(vs) == <<>> \o [i \in 1..Len(vs) |-> Marshal(vs[i])]
        Only == Texts(<<JStruct(<<Member(KMethod, JStr(MEcho))>>),
                        JStruct(<<Member(KMethod, JStr(MEcho)), Member(KID, JNum(7))>>),
                        JStruct(<<Member(KMethod, JStr(MEch)), Member(KID, JNull)>>),
                        JStruct(<<Member(KMethod, JNum(7)), Member(KID, JNum(7))>>),
                        JStruct(<<>>),
                        JNull, JNum(42), JStr(MEcho), JBool(TRUE), JArr(<<JNum(1)>>)>>)
        Written(t) ==
            {t[1], t[2], t[3], t[4], t[5], t[6], t[7], t[8], t[9], t[10] \o <<"x">>,
             <<" ">> \o t[6] \o <<LF>>, t[6] \o <<"x">>, t[7] \o <<"x">>, t[8] \o <<"x">>,
             t[6] \o t[1]}
    IN
    Written(Only) \cup
    {<<"{", " ", "}">>, <<"0", "1">>,
     <<"{">>, <<"{", Quote, "i", "d", Quote>>, <<"x">>,
     <<>>,
     \* White space around every token, an array of a fraction, a boolean, a
     \* negative zero and an exponent for params, an id with a character the
     \* encoder escapes, white space behind the object.
     <<" ", "{", " ", Quote, "m", "e", "t", "h", "o", "d", Quote, " ", ":", " ", Quote, "E",
       "c", "h", "o", Quote, " ", ",", " ", Quote, "p", "a", "r", "a", "m", "s", Quote, " ",
       ":", " ", "[", " ", "1", ".", "5", " ", ",", " ", "t", "r", "u", "e", " ", ",", " ", "-",
       "0", " ", ",", " ", "1", "e", "2", " ", "]", " ", ",", " ", Quote, "i", "d", Quote, " ",
       ":", " ", Quote, "<", Quote, " ", "}", " ", LF>>,
     \* Keys in another case, a key twice and keys out of order in a map, escapes
     \* in a string, an id with white space inside, text behind the object.
     <<"{", Quote, "M", "e", "t", "h", "o", "d", Quote, ":", Quote, "E", "c", "h", "o", Quote,
       ",", Quote, "P", "A", "R", "A", "M", "S", Quote, ":", "{", Quote, "b", Quote, ":", Quote,
       Backslash, "u", "0", "0", "4", "1", Backslash, "n", Quote, ",", Quote, "a", Quote, ":",
       "1", ",", Quote, "a", Quote, ":", "[", "f", "a", "l", "s", "e", "]", "}", ",", Quote,
       "i", "d", Quote, ":", "[", "7", ",", " ", Quote, "a", " ", "b", Quote, "]", "}", "x">>,
     \* A key spelt with the long s.
     <<"{", Quote, "m", "e", "t", "h", "o", "d", Quote, ":", Quote, "C", "o", "n", "t", "e",
       "x", "t", "R", "e", "q", "u", "e", "s", "t", Quote, ",", Quote, "p", "a", "r", "a", "m",
       ToChar(383), Quote, ":", "1", ".", "5", "0", ",", Quote, "i", "d", Quote, ":", "7", "}">>,
     \* A number with a leading zero.
     <<"{", Quote, "m", "e", "t", "h", "o", "d", Quote, ":", Quote, "E", "c", "h", "o", Quote,
       ",", Quote, "p", "a", "r", "a", "m", "s", Quote, ":", "0", "1", ",", Quote, "i", "d",
       Quote, ":", "7", "}">>,
     \* A line feed inside a string.
     <<"{", Quote, "m", "e", "t", "h", "o", "d", Quote, ":", Quote, "E", "c", "h", "o", Quote,
       ",", Quote, "p", "a", "r", "a", "m", "s", Quote, ":", Quote, "a", LF, "b", Quote, ",",
       Quote, "i", "d", Quote, ":", "7", "}">>,
     \* The method twice: a number first, then null.
     <<"{", Quote, "m", "e", "t", "h", "o", "d", Quote, ":", "7", ",", Quote, "m", "e", "t",
       "h", "o", "d", Quote, ":", "n", "u", "l", "l", "}">>,
     \* A key twice, a number beyond the largest float64 first.
     <<"{", Quote, "m", "e", "t", "h", "o", "d", Quote, ":", Quote, "E", "c", "h", "o", Quote,
       ",", Quote, "p", "a", "r", "a", "m", "s", Quote, ":", "{", Quote, "a", Quote, ":", "1",
       "e", "9", "9", "9", ",", Quote, "a", Quote, ":", "1", "}", ",", Quote, "i", "d", Quote,
       ":", "7", "}">>,
     \* Numbers no float64 holds exactly, one past 2^53 and one of 19 digits: the
     \* float64 nearest to each is stored.
     <<"{", Quote, "m", "e", "t", "h", "o", "d", Quote, ":", Quote, "E", "c", "h", "o", Quote,
       ",", Quote, "p", "a", "r", "a", "m", "s", Quote, ":", "[", "9", "0", "0", "7", "1", "9",
       "9", "2", "5", "4", "7", "4", "0", "9", "9", "3", ",", "0", ".", "1", "2", "3", "4", "5",
       "6", "7", "8", "9", "0", "1", "2", "3", "4", "5", "6", "7", "8", "9", "]", ",", Quote,
       "i", "d", Quote, ":", "7", "}">>}

Bodies == {EncodeRequest(q) : q \in ClientRequests} \cup OtherBodies

\* The shapes of a target of UnmarshalArgs: interface{}, string, a map, and
\* a target handed over without taking its address.
Shapes == {"any", "string", "map", "nonptr"}
\* Arguments of a direct call: a number, a string, a map, nil.
DirectArgs == {GoVal(JNum(42)), GoVal(JStr(StrFoo)), GoVal(FooBar), GoNil}
\* The zero value a target of each shape holds before the call.
ZeroOf(shape) == IF shape = "string" THEN GoVal(JStr(<<>>)) ELSE GoNil

(***************************************************************************)
(* The state.                                                              *)
(***************************************************************************)
VARIABLES
    mux,       \* the ServeMux value the program holds: a nil map or a map
    regs,      \* the registrations that returned, in order: <<method, handler>>
    handled,   \* the last Handle / HandleFunc call
    sm,        \* the registry's entries (ServeMux): method name -> handler
    serving,   \* the registry is fixed and HTTP requests are served
    nHandle,   \* registrations made
    direct,    \* the last direct dispatch: its call, registry and outcome
    unm,       \* the last UnmarshalArgs made on a direct call outside a handler
    pc,        \* per request: "idle", "serve", "respond", "done", "panic"
    body,      \* per request: the body it arrived with
    call,      \* per request: the Call NewCall returned
    res,       \* per request: the outcome of h.ServeRPC(c)
    sink,      \* per request: its http.ResponseWriter
    cancelled, \* per request: its context (r.Context()) has been cancelled
    log        \* per request: the calls the bridge made, in order, with the
               \* Response value Respond built and whether Respond left the
               \* sink committed

vars == <<mux, regs, handled, sm, serving, nHandle, direct, unm, pc, body, call, res, sink,
          cancelled, log>>
httpVars == <<pc, body, call, res, sink, log>>
regVars == <<mux, regs, handled, sm, nHandle>>

NoDirect == [done |-> FALSE, echoed |-> FALSE]
NoOutcome == Dispatched(Returns(GoNil), <<>>)

NoHandle == [done |-> FALSE, panic |-> FALSE]
NoUnmarshal == [done |-> FALSE]

Init ==
    /\ mux \in {MakeMux(how) : how \in Makes}
    /\ regs = <<>>
    /\ handled = NoHandle
    /\ sm = EmptyMux
    /\ serving = FALSE
    /\ nHandle = 0
    /\ direct = NoDirect
    /\ unm = NoUnmarshal
    /\ pc = [r \in Reqs |-> "idle"]
    /\ body = [r \in Reqs |-> <<>>]
    /\ call = [r \in Reqs |-> NoCall]
    /\ res = [r \in Reqs |-> NoOutcome]
    /\ sink = [r \in Reqs |-> NewSink]
    /\ cancelled = [r \in Reqs |-> FALSE]
    /\ log = [r \in Reqs |-> <<>>]

\* mux.Handle(method, h) / mux.HandleFunc(method, fn), before serving.
DoHandle(method, h) ==
    /\ ~serving
    /\ ~handled.panic
    /\ direct = NoDirect /\ unm = NoUnmarshal
    /\ nHandle < MaxHandle
    /\ \E out \in {HandleOn(mux, sm, method, h)} :
       /\ sm' = out.entries
       /\ regs' = IF out.panic THEN regs ELSE Append(regs, <<method, h>>)
       /\ handled' = [done |-> TRUE, panic |-> out.panic, recv |-> mux, ret |-> out.ret,
                      method |-> method, h |-> h, before |-> sm]
    /\ nHandle' = nHandle + 1
    /\ UNCHANGED <<mux, serving, direct, unm, httpVars, cancelled>>

\* mux.ServeRPC(NewDirectCall(nil, method, args)): a dispatch without any
\* transport, as the package's own test makes it.
DirectServe(method, args) ==
    /\ ~serving
    /\ ~handled.panic
    /\ unm = NoUnmarshal
    /\ \E c \in {NewDirectCall(NilContext, method, args)} :
       direct' = [done |-> TRUE, echoed |-> FALSE, call |-> c, sm |-> sm,
                  out |-> ServeRPC(sm, c)]
    /\ UNCHANGED <<regVars, serving, unm, httpVars, cancelled>>

\* echo.ServeRPC(NewDirectCall(nil, method, args)): a handler served
\* directly, without a registry.
DirectEcho(method, args) ==
    /\ ~serving
    /\ ~handled.panic
    /\ unm = NoUnmarshal
    /\ \E c \in {NewDirectCall(NilContext, method, args)} :
       direct' = [done |-> FALSE, echoed |-> TRUE, call |-> c, sm |-> sm,
                  out |-> Dispatched(RunHandler("echo", c), <<"echo">>)]
    /\ UNCHANGED <<regVars, serving, unm, httpVars, cancelled>>

\* dc := NewDirectCall(nil, method, args); err := dc.UnmarshalArgs(target)
\* with a target of the given shape.
DirectUnmarshal(method, args, shape) ==
    /\ ~serving
    /\ ~handled.panic
    /\ direct = NoDirect /\ unm = NoUnmarshal
    /\ \E c \in {NewDirectCall(NilContext, method, args)} :
       unm' = [done |-> TRUE, call |-> c, shape |-> shape, cur |-> ZeroOf(shape),
               out |-> UnmarshalArgs(c, shape, ZeroOf(shape))]
    /\ UNCHANGED <<regVars, serving, direct, httpVars, cancelled>>

\* http.ListenAndServe(addr, HTTPHandler(codec, mux)): registration is over.
StartServing ==
    /\ ~serving
    /\ ~handled.panic
    /\ direct = NoDirect /\ unm = NoUnmarshal
    /\ serving' = TRUE
    /\ UNCHANGED <<regVars, direct, unm, httpVars, cancelled>>

\* HTTPHandler, first part: the context is built and codec.NewCall called;
\* on an error http.Error(w, err.Error(), 400) and return.
HTTPNewCall(r, b) ==
    /\ serving
    /\ pc[r] = "idle"
    /\ \E n \in {NewCall(WithResponseWriter(WithRequest(RequestContext(r), r), r), r, b)} :
       /\ body' = [body EXCEPT ![r] = b]
       /\ call' = [call EXCEPT ![r] = n.call]
       /\ IF n.err # ""
          THEN /\ sink' = [sink EXCEPT ![r] = HTTPError(sink[r], n.err, StatusBadRequest)]
               /\ pc' = [pc EXCEPT ![r] = "done"]
               /\ log' = [log EXCEPT ![r] = <<[op |-> "NewCall", err |-> n.err, call |-> n.call],
                                             [op |-> "http.Error", code |-> StatusBadRequest]>>]
          ELSE /\ sink' = sink
               /\ pc' = [pc EXCEPT ![r] = "serve"]
               /\ log' = [log EXCEPT ![r] = <<[op |-> "NewCall", err |-> "", call |-> n.call]>>]
    /\ UNCHANGED <<regVars, serving, direct, unm, res, cancelled>>

\* The Call as a handler finds it while it runs: its context is done when
\* the request the context derives from has been cancelled by then.
Seen(c) == [c EXCEPT !.ctx.done = cancelled[c.ctx.from]]

\* HTTPHandler, second part: res := h.ServeRPC(c).  A panic in the handler
\* unwinds the bridge: nothing more is called.
HTTPServeUnlessCancelled(r) ==
    /\ pc[r] = "serve"
    /\ \E out \in {IF cancelled[r] THEN Dispatched(Returns(ErrCanceled), <<>>)
                   ELSE ServeRPC(sm, Seen(call[r]))} :
       /\ res' = [res EXCEPT ![r] = out]
       /\ pc' = [pc EXCEPT ![r] = IF out.panic THEN "panic" ELSE "respond"]
       /\ log' = [log EXCEPT ![r] = Append(@, [op |-> "ServeRPC", call |-> call[r],
                                                invoked |-> out.invoked])]
    /\ UNCHANGED <<regVars, serving, direct, unm, body, call, sink, cancelled>>
HTTPServeAgain(r) ==
    /\ pc[r] = "serve"
    /\ \E out \in {ServeRPC(sm, Seen(call[r]))} :
       /\ res' = [res EXCEPT ![r] = out]
       /\ pc' = [pc EXCEPT ![r] = IF out.panic THEN "panic"
                                  ELSE IF Len(log[r]) < 2 THEN "serve" ELSE "respond"]
       /\ log' = [log EXCEPT ![r] = Append(@, [op |-> "ServeRPC", call |-> call[r],
                                                invoked |-> out.invoked])]
    /\ UNCHANGED <<regVars, serving, direct, unm, body, call, sink, cancelled>>
HTTPServe(r) ==
    /\ pc[r] = "serve"
    /\ \E out \in {ServeRPC(sm, Seen(call[r]))} :
       /\ res' = [res EXCEPT ![r] = out]
       /\ pc' = [pc EXCEPT ![r] = IF out.panic THEN "panic" ELSE "respond"]
       /\ log' = [log EXCEPT ![r] = Append(@, [op |-> "ServeRPC", call |-> call[r],
                                                invoked |-> out.invoked])]
    /\ UNCHANGED <<regVars, serving, direct, unm, body, call, sink, cancelled>>

\* HTTPHandler, third part: codec.Respond(c, res); on an error
\* http.Error(w, err.Error(), 500).
HTTPRespond(r, fail) ==
    /\ pc[r] = "respond"
    /\ \E w \in {ContextResponseWriter(CallContext(call[r]))} :
       \E out \in {Respond(sink[w], call[r], res[r].ret, fail)} :
       \E ev \in {[op |-> "Respond", call |-> call[r], val |-> res[r].ret, err |-> out.err,
                    resp |-> out.resp, committed |-> out.sink.committed]} :
       IF out.err # ""
       THEN /\ sink' = [sink EXCEPT ![w] = out.sink,
                                    ![r] = HTTPError(IF w = r THEN out.sink ELSE sink[r], out.err,
                                                     StatusInternalServerError)]
            /\ log' = [log EXCEPT ![r] = @ \o <<ev, [op |-> "http.Error",
                                                    code |-> StatusInternalServerError]>>]
       ELSE /\ sink' = [sink EXCEPT ![w] = out.sink]
            /\ log' = [log EXCEPT ![r] = Append(@, ev)]
    /\ pc' = [pc EXCEPT ![r] = "done"]
    /\ UNCHANGED <<regVars, serving, direct, unm, body, call, res, cancelled>>

\* How a Write of the sink may fail: before any byte, or after the first.
WriteFailures == {WriteWorks, WriteBreaks(0), WriteBreaks(1)}

Next ==
    \/ \E reg \in Registrations : DoHandle(reg[1], reg[2])
    \/ \E m \in ReqMethods, a \in DirectArgs : DirectServe(m, a)
    \/ \E m \in ReqMethods, a \in DirectArgs : DirectEcho(m, a)
    \/ \E m \in ReqMethods, a \in DirectArgs, sh \in Shapes : DirectUnmarshal(m, a, sh)
    \/ StartServing
    \/ \E r \in Reqs, b \in Bodies : HTTPNewCall(r, b)
    \/ \E r \in Reqs : HTTPServe(r)
    \/ \E r \in Reqs, f \in WriteFailures : HTTPRespond(r, f)

Spec == Init /\ [][Next]_vars

(***************************************************************************)
(* Concurrent serving: the registry of the codec's test is fixed, and      *)
(* MaxConc requests are handled at once, their steps interleaved in any    *)
(* order (net/http runs each request's handler in its own goroutine).      *)
(***************************************************************************)
RequestNames == <<"r1", "r2", "r3">>
ConcReqs == {RequestNames[i] : i \in 1..MaxConc}

\* lrpc.ServeMux{}.HandleFunc("Echo", ..)...HandleFunc("ContextRequest", ..)
ConcRegs == <<<<MEcho, "Echo">>, <<MError1, "Error1">>, <<MError2, "Error2">>,
              <<MCtx, "ContextRequest">>>>
RECURSIVE RegistryOf(_)
RegistryOf(rs) ==
    IF rs = <<>> THEN EmptyMux
    ELSE Handle(RegistryOf(SubSeq(rs, 1, Len(rs) - 1)), rs[Len(rs)][1], rs[Len(rs)][2])

\* The bodies sent: an Echo with a string id, an Error1 and an Error2 with a
\* number id, a ContextRequest, an unregistered method without an id, and a
\* text that is no JSON.
ConcBodies ==
    {EncodeRequest(NewRequest(MEcho, GoVal(FooBar), RandHex(<<"a", "1">>)).req),
     EncodeRequest(HandRequest(MError1, JNum(42), Ptr(Marshal(JNum(7))))),
     EncodeRequest(HandRequest(MError2, JNum(42), Ptr(Marshal(JNum(42))))),
     EncodeRequest(HandRequest(MCtx, FooBar, Ptr(Marshal(JNum(7))))),
     EncodeRequest(HandRequest(MEch, FooBar, NilPtr)),
     <<"{">>}

InitConc ==
    /\ mux = MakeMux("ServeMux{}")
    /\ regs = ConcRegs
    /\ handled = [done |-> TRUE, panic |-> FALSE, recv |-> mux, ret |-> mux,
                  method |-> ConcRegs[Len(ConcRegs)][1], h |-> ConcRegs[Len(ConcRegs)][2],
                  before |-> RegistryOf(SubSeq(ConcRegs, 1, Len(ConcRegs) - 1))]
    /\ sm = RegistryOf(ConcRegs)
    /\ serving = TRUE
    /\ nHandle = Len(ConcRegs)
    /\ direct = NoDirect
    /\ unm = NoUnmarshal
    /\ pc = [r \in ConcReqs |-> "idle"]
    /\ body = [r \in ConcReqs |-> <<>>]
    /\ call = [r \in ConcReqs |-> NoCall]
    /\ res = [r \in ConcReqs |-> NoOutcome]
    /\ sink = [r \in ConcReqs |-> NewSink]
    /\ cancelled = [r \in ConcReqs |-> FALSE]
    /\ log = [r \in ConcReqs |-> <<>>]

NextConc ==
    \/ \E r \in ConcReqs, b \in ConcBodies : HTTPNewCall(r, b)
    \/ \E r \in ConcReqs : HTTPServe(r)
    \/ \E r \in ConcReqs, f \in WriteFailures : HTTPRespond(r, f)

SpecConc == InitConc /\ [][NextConc]_vars

(***************************************************************************)
(* Cancellation: as above, and the context of a request in flight may be   *)
(* cancelled at any moment (the client goes away, a deadline passes).  A   *)
(* request's goroutine runs on: once it can call the handler or Respond,   *)
(* it does.                                                                *)
(***************************************************************************)
CancelRegs == <<<<MEcho, "Echo">>, <<MCtxErr, "CtxErr">>>>
\* The bodies sent: an Echo, a call of the handler that looks at its
\* context, and a text that is no JSON.
CancelBodies ==
    {EncodeRequest(NewRequest(MEcho, GoVal(FooBar), RandHex(<<"a", "1">>)).req),
     EncodeRequest(HandRequest(MCtxErr, FooBar, Ptr(Marshal(JNum(7))))),
     <<"{">>}

InitCancel ==
    /\ mux = MakeMux("ServeMux{}")
    /\ regs = CancelRegs
    /\ handled = [done |-> TRUE, panic |-> FALSE, recv |-> mux, ret |-> mux,
                  method |-> CancelRegs[Len(CancelRegs)][1], h |-> CancelRegs[Len(CancelRegs)][2],
                  before |-> RegistryOf(SubSeq(CancelRegs, 1, Len(CancelRegs) - 1))]
    /\ sm = RegistryOf(CancelRegs)
    /\ serving = TRUE
    /\ nHandle = Len(CancelRegs)
    /\ direct = NoDirect
    /\ unm = NoUnmarshal
    /\ pc = [r \in ConcReqs |-> "idle"]
    /\ body = [r \in ConcReqs |-> <<>>]
    /\ call = [r \in ConcReqs |-> NoCall]
    /\ res = [r \in ConcReqs |-> NoOutcome]
    /\ sink = [r \in ConcReqs |-> NewSink]
    /\ cancelled = [r \in ConcReqs |-> FALSE]
    /\ log = [r \in ConcReqs |-> <<>>]

\* The context of request r is cancelled while the request is in flight.
Cancel(r) ==
    /\ pc[r] \in {"idle", "serve", "respond"}
    /\ ~cancelled[r]
    /\ cancelled' = [cancelled EXCEPT ![r] = TRUE]
    /\ UNCHANGED <<regVars, serving, direct, unm, httpVars>>

NextCancel ==
    \/ \E r \in ConcReqs, b \in CancelBodies : HTTPNewCall(r, b)
    \/ \E r \in ConcReqs : HTTPServe(r)
    \/ \E r \in ConcReqs, f \in WriteFailures : HTTPRespond(r, f)
    \/ \E r \in ConcReqs : Cancel(r)

\* What the return of h.ServeRPC, and of codec.Respond with what follows it,
\* does to the position of request r.  HTTPServe(r) and HTTPRespond(r, f)
\* are enabled exactly when r stands before them, and are the only steps
\* that move r on from there (StepsOfTheGoroutine).
ServeReturns(r) ==
    pc[r] = "serve" /\ \E p \in {"respond", "panic"} : pc' = [pc EXCEPT ![r] = p]
RespondReturns(r) ==
    pc[r] = "respond" /\ pc' = [pc EXCEPT ![r] = "done"]
StepsOfTheGoroutine ==
    [][\A r \in ConcReqs :
          /\ ServeReturns(r) <=> HTTPServe(r)
          /\ RespondReturns(r) <=> \E f \in WriteFailures : HTTPRespond(r, f)]_vars

\* A goroutine that can call the handler, or Respond, does so: nothing in
\* the bridge waits between NewCall, ServeRPC and Respond.
SpecCancel ==
    /\ InitCancel /\ [][NextCancel]_vars
    /\ \A r \in ConcReqs : WF_pc(ServeReturns(r)) /\ WF_pc(RespondReturns(r))

(***************************************************************************)
(* What a client sees: the test's decoding of the recorded response        *)
(* (json.NewDecoder(w.Body).Decode(&res)) and of the request it sent.      *)
(***************************************************************************)
Has(ms, k) == SelectSeq(ms, LAMBDA m : m.k = k) # <<>>
Get(ms, k) == LET h == SelectSeq(ms, LAMBDA m : m.k = k) IN h[Len(h)]

\* The members of the object a request body begins with, and those of them
\* that name the Request field tagged k (in any case of letters).
ReqMembers(b) ==
    LET o == ScanObject(SkipSpace(b)) IN IF o.ok THEN o.ms ELSE <<>>
Named(ms, k) == SelectSeq(ms, LAMBDA m : FieldOf(m.k) = k)
\* The id member of the request body, the last one if there are several,
\* and its raw text; <<>> when the body has none.
HasReqID(b) == Named(ReqMembers(b), KID) # <<>>
ReqID(b) == LET ids == Named(ReqMembers(b), KID) IN ids[Len(ids)]
ReqIDText(b) == IF HasReqID(b) THEN ReqID(b).raw ELSE <<>>

\* The members of the response object the codec wrote to r's sink.
ResponseMembers(r) == ScanObject(sink[r].body[1].data).ms

Ops(l) == [i \in 1..Len(l) |-> l[i].op]
\* h.ServeRPC(c) was called for r.
Served(r) == Len(log[r]) >= 2 /\ log[r][2].op = "ServeRPC"
\* codec.Respond(c, res) was called for r: it is the third call.
Responded(r) == Len(log[r]) >= 3 /\ log[r][3].op = "Respond"
\* ... and returned nil: the whole response text is in the sink.
Answered(r) == Responded(r) /\ log[r][3].err = ""

(***************************************************************************)
(* The claims.                                                             *)
(***************************************************************************)

\* C1: ServeMux.ServeRPC returns the outcome of the handler registered
\* under exactly the string c.Method(), and invokes that handler only; when
\* no entry has that exact key (a key it is a prefix of does not count) it
\* returns the sentinel ErrMethodNotFound and invokes no handler.  Checked
\* on every direct dispatch and every dispatch made by the HTTP bridge.
ExactDispatch(reg, c, out) ==
    IF \E k \in DOMAIN reg : k = CallMethod(c)
    THEN LET h == reg[CallMethod(c)] IN
         /\ out.invoked = <<h>>
         /\ out.panic = RunHandler(h, c).panic
         /\ out.ret = RunHandler(h, c).ret
    ELSE /\ ~out.panic
         /\ out.ret = GoErr("lrpc.ErrMethodNotFound", TxtMethodNotFound)
         /\ out.invoked = <<>>
C1_ExactMatchDispatch ==
    /\ direct.done => ExactDispatch(direct.sm, direct.call, direct.out)
    /\ \A r \in Reqs : Served(r) /\ pc[r] # "serve" => ExactDispatch(sm, call[r], res[r])
C1_Witness ==
    /\ direct.done
    /\ CallMethod(direct.call) = MEch
    /\ DOMAIN direct.sm = {MEcho, MError1}
    /\ direct.out.invoked = <<>>
    /\ direct.out.ret = ErrMethodNotFound

\* C2: when NewCall succeeds the bridge calls NewCall, then ServeRPC with
\* the Call NewCall returned, then (once ServeRPC has returned) Respond with
\* that Call and the value ServeRPC returned: each once, in this order, and
\* a dispatch runs at most one handler.
C2_BridgeSequence ==
    \A r \in Reqs :
        LET l == log[r] IN
        (l # <<>> /\ l[1].err = "") =>
            /\ IsPrefix(Ops(l), <<"NewCall", "ServeRPC", "Respond", "http.Error">>)
            /\ l[1].call # NoCall
            /\ Len(l) >= 2 => l[2].call = l[1].call /\ Len(l[2].invoked) <= 1
            /\ Len(l) >= 3 => /\ l[3].call = l[1].call
                              /\ ~res[r].panic
                              /\ l[3].val = res[r].ret
            /\ pc[r] = "serve" <=> Len(l) = 1
            /\ pc[r] \in {"respond", "panic"} <=> Len(l) = 2
            /\ pc[r] = "done" <=> Len(l) >= 3
C2_Witness ==
    \E r \in Reqs :
        /\ pc[r] = "done"
        /\ Ops(log[r]) = <<"NewCall", "ServeRPC", "Respond">>
        /\ log[r][2].invoked = <<"Echo">>
        /\ log[r][3].val = GoVal(FooBar)

\* C3: the id of the Response that Respond builds is the id of the decoded
\* request, and the id text of the response it writes is, character for
\* character, the id text of the request body, for string, number and null
\* ids, for results and errors.
C3_IDEcho ==
    \A r \in Reqs :
        /\ Responded(r) => log[r][3].resp.ID = call[r].req.ID
        /\ Answered(r) /\ HasReqID(body[r]) =>
               /\ Has(ResponseMembers(r), KID)
               /\ Get(ResponseMembers(r), KID).raw = ReqIDText(body[r])
\* What does hold of the id: the Response holds the Request's pointer, the
\* text written is the request's id text as the encoder rewrites it (white
\* space dropped, the characters it escapes escaped), and it denotes the
\* same JSON value.
C3_SameValue ==
    \A r \in Reqs :
        /\ Responded(r) => log[r][3].resp.ID = call[r].req.ID
        /\ Answered(r) /\ HasReqID(body[r]) =>
               /\ Has(ResponseMembers(r), KID)
               /\ Get(ResponseMembers(r), KID).raw = Compact(ReqIDText(body[r]))
               /\ Get(ResponseMembers(r), KID).v = ReqID(body[r]).v

\* C4: Respond puts a *json2.Error result into the response's error as it
\* is, wraps any other error as {code -32000, message: its text}, and puts
\* a result that is no error into the response's result.
JField(v, k) == Get(v.m, k).v
C4_ErrorWrapping ==
    \A r \in Reqs : Responded(r) =>
        LET i == log[r][3].val
            R == log[r][3].resp IN
        /\ i.g = "jerr" => R.Error = i.e /\ R.Result = GoNil
        /\ i.g = "err" => /\ R.Error = [nil |-> FALSE, Code |-> -32000, Message |-> i.text,
                                        Data |-> JNull]
                          /\ R.Result = GoNil
        /\ i.g \notin {"jerr", "err"} => R.Result = i /\ R.Error.nil
        /\ Answered(r) /\ i.g = "err" =>
               /\ JField(Get(ResponseMembers(r), KError).v, KCode) = JNum(-32000)
               /\ JField(Get(ResponseMembers(r), KError).v, KMessage) = JStr(i.text)
        /\ Answered(r) /\ i.g = "jerr" /\ ~i.e.nil =>
               /\ JField(Get(ResponseMembers(r), KError).v, KCode) = JNum(i.e.Code)
               /\ JField(Get(ResponseMembers(r), KError).v, KMessage) = JStr(i.e.Message)
               /\ JField(Get(ResponseMembers(r), KError).v, KData) = i.e.Data
        /\ Answered(r) /\ i.g = "val" /\ i # GoNil =>
               Get(ResponseMembers(r), KResult).v = i.v
C4_Witness ==
    \E r \in Reqs :
        /\ Answered(r)
        /\ log[r][3].val = ErrSome
        /\ log[r][3].resp.Error.Code = -32000
        /\ log[r][3].resp.Error.Message = TxtSomeError

\* C5: a request whose body is not one JSON object (white space around it
\* allowed) has NewCall return an error; the bridge writes the error's text
\* with status 400 and returns: no dispatch, no Respond, nothing written by
\* the codec.
JSONObjectText(b) ==
    LET Whole(p) == p.ok /\ p.v.t = "obj" /\ SkipSpace(p.rest) = <<>> IN Whole(ParseValue(b))
C5_OnlyObjectsAccepted ==
    \A r \in Reqs : pc[r] # "idle" /\ ~JSONObjectText(body[r]) =>
        /\ log[r][1].err # ""
        /\ pc[r] = "done"
        /\ Ops(log[r]) = <<"NewCall", "http.Error">>
        /\ sink[r].committed /\ sink[r].status = 400 /\ sink[r].sent = CTText
\* What does hold: the bodies the decoder rejects are the empty ones, those
\* that begin with no JSON value, those that begin with a number, a string,
\* a boolean or an array, and the objects holding a method or jsonrpc member
\* that is neither a string nor null; whenever NewCall returns an error the
\* bridge writes its text with status 400 and returns without dispatch or
\* Respond.  A body that begins with null, or with an object and text
\* behind it, is not rejected.
NoRequestObject(b) ==
    \/ SkipSpace(b) = <<>>
    \/ ~ParseValue(b).ok
    \/ ParseValue(b).v.t \in {"num", "str", "bool", "arr"}
    \/ /\ ParseValue(b).v.t = "obj"
       /\ \E k \in {KMethod, KJsonrpc} : \E i \in DOMAIN Named(ReqMembers(b), k) :
              Named(ReqMembers(b), k)[i].v.t \notin {"str", "null"}
RejectedBodies ==
    \A r \in Reqs : pc[r] # "idle" =>
        /\ NoRequestObject(body[r]) <=> log[r][1].err # ""
        /\ log[r][1].err # "" =>
               /\ pc[r] = "done"
               /\ Ops(log[r]) = <<"NewCall", "http.Error">>
               /\ log[r][2].code = 400
               /\ call[r] = NoCall
               /\ res[r] = NoOutcome
               /\ sink[r].committed /\ sink[r].status = 400 /\ sink[r].sent = CTText
               /\ sink[r].body = <<[by |-> "http.Error", code |-> 400, msg |-> log[r][1].err]>>


\* C6: when Respond returns an error the bridge calls http.Error with the
\* error's text and status 500, after the dispatch and after Respond; the
\* response's status is 500 exactly when Respond had left the sink
\* uncommitted, and is the codec's 200 otherwise.  A result that cannot be
\* encoded makes Respond fail before anything is committed.
C6_RespondError ==
    \A r \in Reqs : Responded(r) =>
        LET ev == log[r][3] IN
        /\ ev.err # "" =>
               /\ Ops(log[r]) = <<"NewCall", "ServeRPC", "Respond", "http.Error">>
               /\ log[r][4].code = 500
               /\ sink[r].body[Len(sink[r].body)] =
                      [by |-> "http.Error", code |-> 500, msg |-> ev.err]
               /\ sink[r].status = 500 <=> ~ev.committed
               /\ ev.committed => sink[r].status = 200
        /\ ev.err = "" => Len(log[r]) = 3 /\ sink[r].status = 200
        /\ ev.val.g = "chan" => ev.err # "" /\ sink[r].status = 500
C6_Witness ==
    \E r \in Reqs :
        /\ Responded(r)
        /\ log[r][3].err # ""
        /\ ~log[r][3].committed
        /\ sink[r].status = 500
        /\ sink[r].sent = CTText

\* C7: every Response that Respond builds has exactly one of result and
\* error populated.
C7_ExactlyOne ==
    \A r \in Reqs : Responded(r) =>
        (log[r][3].resp.Result # GoNil) # (~log[r][3].resp.Error.nil)

\* C8: no Response that Respond builds has both result and error
\* populated, and no response text it writes has both members.
C8_NeverBoth ==
    \A r \in Reqs :
        /\ Responded(r) =>
               ~(log[r][3].resp.Result # GoNil /\ ~log[r][3].resp.Error.nil)
        /\ Answered(r) =>
               ~(Has(ResponseMembers(r), KResult) /\ Has(ResponseMembers(r), KError))
C8_Witness ==
    \E r \in Reqs :
        /\ Answered(r)
        /\ log[r][3].val = GoJErr(err2)
        /\ Has(ResponseMembers(r), KError)
        /\ ~Has(ResponseMembers(r), KResult)

\* C9: a request whose method is not registered is answered, over the
\* bridge with the JSON RPC2 codec and the mux, with status 200 and a
\* response object that has an error whose message is "method not found",
\* no result, and the request's id (null when the request has none); the
\* bridge writes no 400, and a 500 only when the sink's Write fails.
C9_MethodNotFound ==
    \A r \in Reqs :
        (Served(r) /\ pc[r] # "serve" /\ CallMethod(call[r]) \notin DOMAIN sm) =>
            /\ pc[r] # "panic"
            /\ res[r].invoked = <<>>
            /\ Responded(r) => log[r][3].err \in {"", "write: broken pipe"}
            /\ Answered(r) =>
                   /\ sink[r].status = 200 /\ Len(sink[r].body) = 1
                   /\ Has(ResponseMembers(r), KError)
                   /\ ~Has(ResponseMembers(r), KResult)
                   /\ JField(Get(ResponseMembers(r), KError).v, KMessage)
                          = JStr(<<"m", "e", "t", "h", "o", "d", " ", "n", "o", "t", " ",
                                   "f", "o", "u", "n", "d">>)
                   /\ Get(ResponseMembers(r), KID).v =
                          (IF HasReqID(body[r]) THEN ReqID(body[r]).v ELSE JNull)
C9_Witness ==
    \E r \in Reqs :
        /\ Answered(r)
        /\ CallMethod(call[r]) = MEch
        /\ MEcho \in DOMAIN sm
        /\ ReqIDText(body[r]) = Marshal(JStr(<<"a", "1">>))
        /\ sink[r].status = 200
        /\ Has(ResponseMembers(r), KError)

\* C10: a Request built by NewRequest or by hand from method m and params
\* p, encoded and passed through NewCall, gives a Call whose Method() is m
\* and whose UnmarshalArgs yields p; the echo handler's response carries p
\* as its result and the request's id.
RoundTrips(r, q, m, p) ==
    body[r] = EncodeRequest(q) =>
        /\ call[r] # NoCall
        /\ CallMethod(call[r]) = m
        /\ UnmarshalArgs(call[r], "any", GoNil) = ArgsOk(GoVal(p))
        /\ (Answered(r) /\ res[r].invoked = <<"Echo">>) =>
               /\ Has(ResponseMembers(r), KResult)
               /\ Get(ResponseMembers(r), KResult).v = p
               /\ Get(ResponseMembers(r), KID).raw = MarshalRaw(q.ID)
C10_RoundTrip ==
    \A r \in Reqs : pc[r] # "idle" =>
        \A m \in ReqMethods, p \in ParamValues :
            /\ \A h \in HexIDs : RoundTrips(r, NewRequest(m, GoVal(p), h).req, m, p)
            /\ \A id \in HandIDs : RoundTrips(r, HandRequest(m, p, id), m, p)

\* The handler of the last registration of method m in rs.
LastReg(rs, m) ==
    rs[CHOOSE i \in 1..Len(rs) :
           rs[i][1] = m /\ \A j \in (i + 1)..Len(rs) : rs[j][1] # m][2]
Registered(rs) == {rs[i][1] : i \in 1..Len(rs)}

\* C11: after any sequence of Handle / HandleFunc calls the registry holds,
\* for each method, the handler registered last for it; a call changes the
\* entry of its own method only, removes nothing and returns the map it was
\* called on; a dispatch reaches the handler registered last and leaves the
\* registry as it was.
C11_Registration ==
    /\ DOMAIN sm = Registered(regs)
    /\ \A m \in DOMAIN sm : sm[m] = LastReg(regs, m)
    /\ handled.done /\ ~handled.panic =>
           /\ handled.ret = handled.recv /\ handled.ret = mux
           /\ DOMAIN sm = DOMAIN handled.before \cup {handled.method}
           /\ sm[handled.method] = handled.h
           /\ \A k \in DOMAIN handled.before \ {handled.method} : sm[k] = handled.before[k]
    /\ direct.done =>
           /\ direct.sm = sm
           /\ CallMethod(direct.call) \in Registered(regs) =>
                  direct.out.invoked = <<LastReg(regs, CallMethod(direct.call))>>
    /\ \A r \in Reqs :
           (Served(r) /\ pc[r] # "serve" /\ CallMethod(call[r]) \in Registered(regs)) =>
               res[r].invoked = <<LastReg(regs, CallMethod(call[r]))>>
C11_Witness ==
    /\ regs = <<<<MEcho, "Echo">>, <<MEcho, "Error1">>>>
    /\ handled.before = Handle(EmptyMux, MEcho, "Echo")
    /\ direct.done
    /\ CallMethod(direct.call) = MEcho
    /\ direct.out.invoked = <<"Error1">>
    /\ direct.out.ret = ErrSome

\* C12: on the context of a Call the bridge made, also after the codec has
\* put its Request on top, ContextRequest gives the HTTP request and
\* ContextResponseWriter the response sink of that same request; on a
\* context the bridge did not make (a direct call's, the background) both
\* give the absent value, and nothing panics.
C12_BridgeContext ==
    /\ \A r \in Reqs : call[r] # NoCall =>
           /\ ContextRequest(CallContext(call[r])) = r
           /\ ContextResponseWriter(CallContext(call[r])) = r
           /\ ~JSONContextRequest(CallContext(call[r])).nil
           /\ Responded(r) => sink[r].body # <<>> \/ ~Encodable(log[r][3].resp)
    /\ direct.done =>
           /\ ContextRequest(CallContext(direct.call)) = "none"
           /\ ContextResponseWriter(CallContext(direct.call)) = "none"
C12_Witness ==
    \E r \in Reqs :
        /\ pc[r] = "respond"
        /\ res[r].invoked = <<"ContextRequest">>
        /\ JSONContextRequest(CallContext(call[r])).req.Method = MCtx
        /\ ContextRequest(CallContext(call[r])) = r
        /\ ContextResponseWriter(CallContext(call[r])) = r

\* C13: for every Call that NewCall returned (params absent, null, fitting
\* or not fitting the target) UnmarshalArgs returns nil or an error: it never
\* panics, and no handler's panic reaches the bridge.
C13_ArgsErrorNotThrown ==
    \A r \in Reqs :
        /\ call[r] # NoCall =>
               \A shape \in Shapes : ~UnmarshalArgs(call[r], shape, GoNil).panic
        /\ pc[r] # "panic"

\* C14: DirectCall.UnmarshalArgs checks assignability: when the stored
\* argument is not assignable to the target, or the target cannot be set, it
\* returns an error and leaves the target as it was; otherwise it stores the
\* argument and returns nil.
C14_NotAssignableError ==
    unm.done =>
        IF unm.shape = "nonptr" \/ ~Assignable(unm.call.args, unm.shape)
        THEN ~unm.out.panic /\ unm.out.err # "" /\ unm.out.v = unm.cur
        ELSE unm.out = ArgsOk(unm.call.args)

\* C15: a direct call built from method m and argument a, served by the
\* echo handler, returns the record whose Method is m and whose Args is a;
\* built without a context, the call's context is the background context.
C15_DirectEcho ==
    direct.echoed =>
        /\ ~direct.out.panic
        /\ direct.out.ret =
               GoVal(JStruct(<<Member(KeyMethod, JStr(direct.call.method)),
                               Member(KeyArgs, direct.call.args.v)>>))
        /\ CallContext(direct.call) = Background
\* What does hold: for every argument but nil the echo handler returns the
\* echoRes of the call's method and argument, and for nil it panics; the
\* context of a call built without one is the background context.
EchoOfValues ==
    direct.echoed =>
        /\ direct.out.panic <=> direct.call.args = GoNil
        /\ ~direct.out.panic =>
               /\ direct.out.ret.g = "val" /\ direct.out.ret.v.t = "struct"
               /\ direct.out.ret.v.m =
                      <<Member(KeyMethod, JStr(direct.call.method)),
                        Member(KeyArgs, direct.call.args.v)>>
        /\ CallContext(direct.call) = Background

\* What a Request holds for the members ms of the body it was decoded from.
\* A string field holds the last string among the members that name it (a
\* null leaves it alone); a raw field holds the text of the last member that
\* names it, and is nil when that is null.
BodyString(ms, k) ==
    LET strs == SelectSeq(Named(ms, k), LAMBDA m : m.v.t = "str") IN
    IF strs = <<>> THEN <<>> ELSE strs[Len(strs)].v.s
BodyRaw(ms, k) ==
    LET named == Named(ms, k) IN
    IF named # <<>> /\ named[Len(named)].v.t # "null"
    THEN [nil |-> FALSE, raw |-> named[Len(named)].raw]
    ELSE [nil |-> TRUE, raw |-> <<>>]
CarriesBody(req, ms) ==
    /\ req.Method = BodyString(ms, KMethod)
    /\ req.Params = BodyRaw(ms, KParams)
    /\ req.ID = BodyRaw(ms, KID)

\* C16: the context of a Call that NewCall returned still gives the bridge's
\* request and sink, and json2.ContextRequest on it gives the Call's Request,
\* whose method, raw params and id are those of the body (a member that is
\* absent or null is the nil pointer); the ContextRequest handler sees the
\* raw params of the body; json2.ContextRequest gives nil on a context
\* without a Request.
C16_RequestInContext ==
    /\ \A r \in Reqs : call[r] # NoCall =>
           /\ JSONContextRequest(CallContext(call[r])) = [nil |-> FALSE, req |-> call[r].req]
           /\ ContextRequest(CallContext(call[r])) = r
           /\ ContextResponseWriter(CallContext(call[r])) = r
           /\ CarriesBody(call[r].req, ReqMembers(body[r]))
           /\ (pc[r] = "respond" /\ res[r].invoked = <<"ContextRequest">>) =>
                  res[r].ret = GoVal(JStr(BodyRaw(ReqMembers(body[r]), KParams).raw))
    /\ JSONContextRequest(Background).nil
    /\ (direct.done \/ direct.echoed) => JSONContextRequest(CallContext(direct.call)).nil
C16_Witness ==
    \E r \in Reqs :
        /\ pc[r] = "respond"
        /\ res[r].invoked = <<"ContextRequest">>
        /\ res[r].ret = GoVal(JStr(Marshal(FooBar)))
        /\ JSONContextRequest(CallContext(call[r])).req.ID = Ptr(Marshal(JNum(7)))
        /\ JSONContextRequest(CallContext(call[r])).req.Method = MCtx

\* C17: whatever Respond writes, a result or an error (method not found, a
\* handler's error), goes out with status 200 and Content-Type
\* application/json; charset=utf-8; the status is 400 only when NewCall
\* failed and 500 only when Respond failed.
C17_StatusAndType ==
    \A r \in Reqs :
        /\ (Responded(r) /\ log[r][3].committed) =>
               /\ sink[r].status = 200
               /\ sink[r].sent = "application/json; charset=utf-8"
               /\ sink[r].body[1].by = "codec"
        /\ Answered(r) =>
               /\ sink[r].status = 200
               /\ sink[r].sent = "application/json; charset=utf-8"
               /\ Len(sink[r].body) = 1
        /\ sink[r].status = 400 => log[r][1].err # ""
        /\ sink[r].status = 500 => Responded(r) /\ log[r][3].err # ""
        /\ sink[r].status \in {0, 200, 400, 500}
C17_Witness ==
    \E r \in Reqs :
        /\ Answered(r)
        /\ log[r][3].val = ErrMethodNotFound
        /\ Has(ResponseMembers(r), KError)
        /\ sink[r].status = 200
        /\ sink[r].sent = CTJSON

\* C18: the error object of every error response that Respond writes has
\* the members code and message, and has the member data exactly when the
\* error carries data.
C18_DataOmitted ==
    \A r \in Reqs : (Answered(r) /\ Has(ResponseMembers(r), KError)) =>
        /\ Has(Get(ResponseMembers(r), KError).v.m, KCode)
        /\ Has(Get(ResponseMembers(r), KError).v.m, KMessage)
        /\ Has(Get(ResponseMembers(r), KError).v.m, KData)
               <=> log[r][3].resp.Error.Data # JNull

\* C19: on a registry made with new(lrpc.ServeMux) every Handle call
\* succeeds and registers its handler, which a dispatch of the method then
\* reaches.
C19_NewServeMuxHandle ==
    (mux = MakeMux("new(ServeMux)") /\ handled.done) =>
        /\ ~handled.panic
        /\ handled.method \in DOMAIN sm
        /\ sm[handled.method] = handled.h
        /\ (direct.done /\ CallMethod(direct.call) = handled.method) =>
               direct.out.invoked = <<handled.h>>

\* What request r holds is what its own body, its own Call and its own
\* handler's result give, whatever the other requests did meanwhile.
OwnSink(r, f) ==
    LET Final(out) == IF out.err = "" THEN out.sink
                      ELSE HTTPError(out.sink, out.err, StatusInternalServerError)
    IN  Final(Respond(NewSink, call[r], res[r].ret, f))
OwnOutcome(r) ==
    /\ pc[r] = "idle" => call[r] = NoCall /\ log[r] = <<>>
    /\ pc[r] # "idle" =>
           call[r] = NewCall(WithResponseWriter(WithRequest(RequestContext(r), r), r), r,
                          body[r]).call
    /\ call[r] # NoCall =>
           /\ ContextRequest(CallContext(call[r])) = r
           /\ ContextResponseWriter(CallContext(call[r])) = r
           /\ JSONContextRequest(CallContext(call[r])).req = call[r].req
    /\ pc[r] \in {"idle", "serve", "respond", "panic"} => sink[r] = NewSink
    /\ (Served(r) /\ pc[r] # "serve") => res[r] = ServeRPC(sm, call[r])
    /\ Responded(r) =>
           /\ log[r][3].call = call[r] /\ log[r][3].val = res[r].ret
           /\ \E f \in WriteFailures : sink[r] = OwnSink(r, f)
    /\ Answered(r) =>
           /\ Get(ResponseMembers(r), KID).raw = MarshalRaw(call[r].req.ID)
           /\ HasReqID(body[r]) =>
                  Get(ResponseMembers(r), KID).raw = Compact(ReqIDText(body[r]))
\* A step belongs to one request and leaves every other request alone.
OneRequestStep ==
    \E r \in ConcReqs : \A q \in ConcReqs \ {r} :
        /\ pc'[q] = pc[q] /\ body'[q] = body[q] /\ call'[q] = call[q]
        /\ res'[q] = res[q] /\ sink'[q] = sink[q] /\ log'[q] = log[q]

\* C20: with the registry fixed, requests handled at once in any
\* interleaving are independent: each request's Call, result and response
\* (with its own id) are those of its own body, and no step of one request
\* changes anything of another; the registry stays as it was.
C20_Independent ==
    /\ [](\A r \in ConcReqs : OwnOutcome(r))
    /\ [](sm = RegistryOf(ConcRegs))
    /\ [][OneRequestStep]_vars
C20_Witness ==
    /\ pc["r1"] = "respond"
    /\ res["r1"].invoked = <<"Echo">>
    /\ res["r1"].ret = GoVal(FooBar)
    /\ Answered("r2")
    /\ log["r2"][3].val = ErrSome
    /\ Get(ResponseMembers("r2"), KID).raw = Marshal(JNum(7))
    /\ ReqIDText(body["r1"]) = Marshal(JStr(<<"a", "1">>))

\* What the bridge's dispatch step of request r does, cancelled or not: the
\* registered handler runs, one that looks at its context finds it done
\* exactly when the request's context is cancelled, one that ignores it
\* returns its result, and the bridge goes on to Respond.
DispatchesRegardless(r) ==
    (pc[r] = "serve" /\ pc'[r] # "serve") =>
        /\ pc'[r] = "respond"
        /\ res'[r].invoked = <<sm[CallMethod(call[r])]>>
        /\ res'[r].invoked = <<"CtxErr">> =>
               res'[r].ret = (IF cancelled[r] THEN ErrCanceled ELSE GoVal(JNull))
        /\ res'[r].invoked = <<"Echo">> => res'[r].ret = GoVal(FooBar)
\* Only a cancellation changes a context's state, and it changes nothing of
\* the bridge: no step of the bridge cancels a request.
OnlyCancelCancels ==
    cancelled' # cancelled =>
        /\ pc' = pc /\ call' = call /\ res' = res /\ sink' = sink /\ log' = log
        /\ \A r \in ConcReqs : cancelled[r] => cancelled'[r]

\* C21: the context of the Call derives from the request's context, so a
\* handler that looks at it after the request was cancelled finds it
\* cancelled; the bridge and the mux never cancel a request or skip a
\* handler: a dispatched handler runs to completion, also for a cancelled
\* request, and Respond is then called with its result.
C21_Cancellation ==
    /\ [](\A r \in ConcReqs : call[r] # NoCall => CallContext(call[r]).from = r)
    /\ [](\A r \in ConcReqs : Responded(r) => log[r][3].val = res[r].ret)
    /\ [][\A r \in ConcReqs : DispatchesRegardless(r)]_vars
    /\ [][OnlyCancelCancels]_vars
    /\ \A r \in ConcReqs : (pc[r] = "serve") ~> Responded(r)
C21_Witness ==
    /\ cancelled["r1"] /\ cancelled["r2"]
    /\ res["r1"].invoked = <<"CtxErr">>
    /\ res["r1"].ret = ErrCanceled
    /\ Responded("r1")
    /\ res["r2"].invoked = <<"Echo">>
    /\ res["r2"].ret = GoVal(FooBar)
    /\ Answered("r2")

\* The writers whose bytes reached the body of sink s: the codec's response,
\* the text of http.Error(.., 400), the text of http.Error(.., 500).
WriterOf(chunk) ==
    IF chunk.by = "codec" THEN "codec response"
    ELSE IF chunk.code = StatusBadRequest THEN "400 error text" ELSE "500 error text"
Writers(s) ==
    {WriterOf(s.body[k]) :
        k \in {j \in 1..Len(s.body) : s.body[j].by # "codec" \/ s.body[j].data # <<>>}}

\* C22: the response of a request is written once: on no path (NewCall
\* fails, Respond succeeds, Respond fails after part of the codec's response
\* went out) does a request's sink hold bytes of more than one of the
\* writers.
C22_WrittenOnce ==
    \A r \in DOMAIN sink : Cardinality(Writers(sink[r])) <= 1

\* The codes the package names for the protocol's own errors.
StandardCodes == {ErrParse, ErrInvalidRequest, ErrNoMethod, ErrInvalidParams, ErrInternal}
\* The code member of the error object in the response written for r.
WrittenCode(r) == JField(Get(ResponseMembers(r), KError).v, KCode)

\* C23: the codec chooses no error code but ErrServer.  In every response
\* it builds, and in the text it writes, the error's code is -32000 or the
\* code of the *Error the invoked handler returned; a method the mux does not
\* know is answered with -32000, not -32601; and a code of the protocol's
\* own (-32700, -32600, -32601, -32602, -32603) is in a response only when
\* a handler ran and returned an Error carrying it.
C23_CodecErrorCodes ==
    \A r \in Reqs : Responded(r) =>
        LET ran == log[r][2].invoked
            i == log[r][3].val
            R == log[r][3].resp IN
        /\ i = res[r].ret
        /\ ~R.Error.nil =>
               /\ \/ R.Error.Code = ErrServer
                  \/ ran # <<>> /\ i.g = "jerr" /\ i.e.Code = R.Error.Code
               /\ R.Error.Code \in StandardCodes => ran # <<>> /\ i = GoJErr(R.Error)
               /\ Answered(r) => WrittenCode(r) = JNum(R.Error.Code)
        /\ R.Error.nil /\ Answered(r) => ~Has(ResponseMembers(r), KError)
        /\ ran = <<>> =>
               /\ i = ErrMethodNotFound
               /\ ~R.Error.nil /\ R.Error.Code = ErrServer /\ R.Error.Code # ErrNoMethod
C23_Witness ==
    \E r \in Reqs :
        /\ Answered(r)
        /\ log[r][2].invoked = <<>>
        /\ log[r][3].val = ErrMethodNotFound
        /\ WrittenCode(r) = JNum(ErrServer)
HandlerCodeWritten ==
    \E r \in Reqs :
        /\ Answered(r)
        /\ log[r][2].invoked = <<"InvalidParams">>
        /\ WrittenCode(r) = JNum(ErrInvalidParams)

====
